---- MODULE Spec2Model ----
(***************************************************************************)
(* A model of the sqlf statement builder (package sqlf).                   *)
(*                                                                         *)
(* Text is modelled as a sequence of tokens.  The bytes the code inspects  *)
(* one by one ("?" and "\") are tokens of their own; every other token is  *)
(* an opaque run of bytes ("SELECT", ", ", "a", ...).  Offsets into the    *)
(* fragment buffer (bufLow, bufHigh) count tokens and are 0-based as in    *)
(* the Go code; Go's s[lo:hi] is Slice(s, lo, hi).                         *)
(***************************************************************************)
EXTENDS Integers, Sequences, FiniteSets, TLC

VARIABLES stmts, stmtState, stmtPool, bufs, bufState, calls, last, gets,
          defaultDialect, lastSet, origin,
          cacheOnce, cacheLock, cache, maps, thr, stored, ops, exec

\* the state of the package besides the statements and buffers: the default
\* dialect, the fields of the Dialect objects (with the maps they point to)
\* and the goroutines that call their methods
libVars == <<defaultDialect, lastSet, cacheOnce, cacheLock, cache, maps, thr, stored, ops>>

vars == <<stmts, stmtState, stmtPool, bufs, bufState, calls, last, gets,
          libVars, origin, exec>>

(***************************************************************************)
(* Bounds of the model.                                                    *)
(***************************************************************************)
MaxCalls == 3
MaxStmts == 2
MaxBufs == 5
MaxDepth == 1
MaxGets == 3
MaxPoolCalls == 4
MaxToCalls == 5
MaxWithCalls == 4
MaxClauseCalls == 12

StmtIds == 1..MaxStmts
BufIds == 1..MaxBufs
NoBuf == 0

(***************************************************************************)
(* Clause positions: the const block of the statement builder.             *)
(***************************************************************************)
posStart == 100
posWith == 200
posInsert == 300
posInsertFields == 400
posValues == 500
posDelete == 600
posUpdate == 700
posSet == 800
posSelect == 900
posInto == 1000
posFrom == 1100
posWhere == 1200
posGroupBy == 1300
posHaving == 1400
posUnion == 1500
posOrderBy == 1600
posLimit == 1700
posOffset == 1800
posReturning == 1900
posEnd == 2000

NoDialect == "NoDialect"
PostgreSQL == "PostgreSQL"
Dialects == {NoDialect, PostgreSQL}

\* a variant without the separator
noSpace == <<>>

space == <<" ">>

(***************************************************************************)
(* Go slice helpers.                                                       *)
(***************************************************************************)
Slice(s, lo, hi) == SubSeq(s, lo + 1, hi)

RECURSIVE SumArgLen(_)
SumArgLen(cs) == IF cs = <<>> THEN 0 ELSE Head(cs).argLen + SumArgLen(Tail(cs))

\* a variant of insertAt that appends src whatever the index
insertAtEnd(dest, src, index) == dest \o src

\* a variant of insertAt that drops what stood behind the index
insertAtTruncating(dest, src, index) ==
    IF Len(src) > 0 THEN Slice(dest, 0, index) \o src ELSE dest

\* insertAt(dest, src, index): src spliced into dest at index.
insertAt(dest, src, index) ==
    IF Len(src) > 0
    THEN IF index < Len(dest)
         THEN Slice(dest, 0, index) \o src \o Slice(dest, index, Len(dest))
         ELSE dest \o src
    ELSE dest

(***************************************************************************)
(* writePg: copies s and replaces ? by $1, $2, ...; \? becomes ?.          *)
(* pgScan is the body of the range loop at offset pos.                     *)
(***************************************************************************)
RECURSIVE pgScan(_, _, _, _, _)
pgScan(s, pos, start, argNo, out) ==
    IF pos >= Len(s)
    THEN [argNo |-> argNo,
          out |-> IF start < Len(s) THEN out \o Slice(s, start, Len(s)) ELSE out]
    ELSE IF start > pos
    THEN pgScan(s, pos + 1, start, argNo, out)
    ELSE IF s[pos + 1] = "\\" /\ pos < Len(s) - 1 /\ s[pos + 2] = "?"
    THEN pgScan(s, pos + 1, pos + 2, argNo, out \o Slice(s, start, pos) \o <<"?">>)
    ELSE IF s[pos + 1] = "?"
    THEN pgScan(s, pos + 1, pos + 1, argNo + 1,
                out \o Slice(s, start, pos) \o <<"$", ToString(argNo)>>)
    ELSE pgScan(s, pos + 1, start, argNo, out)

writePg(argNo, s) == pgScan(s, 0, 0, argNo, <<>>)

\* a variant of the render loop whose placeholder counter restarts in each chunk
RECURSIVE renderLoopRestart(_, _, _, _, _, _, _)
renderLoopRestart(chunks, text, dialect, n, pos, argNo, out) ==
    IF n > Len(chunks)
    THEN out
    ELSE LET chunk == chunks[n]
             sp == IF n > 1 /\ chunk.pos > pos THEN space ELSE <<>>
             s == Slice(text, chunk.bufLow, chunk.bufHigh)
         IN  IF chunk.argLen > 0 /\ dialect = PostgreSQL
             THEN renderLoopRestart(chunks, text, dialect, n + 1, chunk.pos,
                                    1, out \o sp \o writePg(1, s).out)
             ELSE renderLoopRestart(chunks, text, dialect, n + 1, chunk.pos,
                                    argNo, out \o sp \o s)

(***************************************************************************)
(* Stmt.String: the loop over the chunks.  text is the fragment buffer.    *)
(***************************************************************************)
RECURSIVE renderLoop(_, _, _, _, _, _, _)
renderLoop(chunks, text, dialect, n, pos, argNo, out) ==
    IF n > Len(chunks)
    THEN out
    ELSE LET chunk == chunks[n]
             sp == IF n > 1 /\ chunk.pos > pos THEN space ELSE <<>>
             s == Slice(text, chunk.bufLow, chunk.bufHigh)
         IN  IF chunk.argLen > 0 /\ dialect = PostgreSQL
             THEN LET r == writePg(argNo, s)
                  IN  renderLoop(chunks, text, dialect, n + 1, chunk.pos,
                                 r.argNo, out \o sp \o r.out)
             ELSE renderLoop(chunks, text, dialect, n + 1, chunk.pos,
                             argNo, out \o sp \o s)

Render(chunks, text, dialect) == renderLoop(chunks, text, dialect, 1, 0, 1, <<>>)

(***************************************************************************)
(* A view is the part of a statement that addChunk works on: the clause    *)
(* position, the chunk list, the argument list and the contents of the     *)
(* fragment buffer (text).  inval records that Invalidate was called,      *)
(* index is the value addChunk returns (0-based).                          *)
(***************************************************************************)
RECURSIVE chunkScan(_, _, _, _)
chunkScan(chunks, pos, i, argTail) ==
    IF i < 0
    THEN [kind |-> "none", i |-> 0, argTail |-> argTail]
    ELSE IF chunks[i + 1].pos = pos
    THEN [kind |-> "eq", i |-> i, argTail |-> argTail]
    ELSE IF chunks[i + 1].pos < pos
    THEN [kind |-> "lt", i |-> i, argTail |-> argTail]
    ELSE chunkScan(chunks, pos, i - 1, argTail + chunks[i + 1].argLen)

\* a variant that puts the chunk in front of the chunk it should follow
InsertChunkBefore(chunks, chunk, index) ==
    IF index > 0
    THEN Slice(chunks, 0, index - 1) \o <<chunk>> \o Slice(chunks, index - 1, Len(chunks))
    ELSE <<chunk>> \o chunks

InsertChunk(chunks, chunk, index) ==
    Slice(chunks, 0, index) \o <<chunk>> \o Slice(chunks, index, Len(chunks))

\* a variant that writes the clause keyword in front of every new chunk
AddClauseAlways(clause, found) == clause # <<>>

\* addClause: the clause keyword is written unless a chunk of the position exists
AddClause(clause, found) == clause # <<>> /\ ~found

\* a variant that goes on whatever the expression is
doNothingNever(found, expr) == FALSE

\* addChunk: do nothing if a clause is already there and no expressions are
\* to be added
doNothing(found, expr) == found /\ expr = <<>>

addChunk(v, pos, clause, expr, args, sep) ==
    LET argLen == Len(args)
        bufLow == Len(v.text)
        sc == chunkScan(v.chunks, pos, Len(v.chunks) - 1, 0)
        found == sc.kind = "eq"
        chunk == v.chunks[sc.i + 1]
        \* the separator is written as soon as a chunk of this position is found
        text1 == IF found
                 THEN v.text \o (IF chunk.hasExpr THEN sep ELSE <<" ">>)
                 ELSE v.text
        extend == found /\ chunk.bufHigh = bufLow
        addClause == AddClause(clause, found)
        index == IF found THEN (IF extend THEN sc.i ELSE sc.i + 1)
                 ELSE IF sc.kind = "lt" THEN sc.i + 1 ELSE 0
        text2 == IF extend
                 THEN text1 \o expr
                 ELSE text1
                      \o (IF addClause
                          THEN clause \o (IF expr # <<>> THEN <<" ">> ELSE <<>>)
                          ELSE <<>>)
                      \o expr
        newChunk == [pos |-> pos, bufLow |-> bufLow, bufHigh |-> Len(text2),
                     argLen |-> argLen, hasExpr |-> expr # <<>>]
        chunks2 == IF extend
                   THEN [v.chunks EXCEPT ![sc.i + 1] =
                            [@ EXCEPT !.argLen = @ + argLen,
                                      !.bufHigh = Len(text2),
                                      !.hasExpr = TRUE]]
                   ELSE InsertChunk(v.chunks, newChunk, index)
        args2 == IF argLen > 0
                 THEN insertAt(v.args, args, Len(v.args) - sc.argTail)
                 ELSE v.args
    IN  IF doNothing(found, expr)
        THEN [v EXCEPT !.pos = pos, !.index = sc.i]
        ELSE [pos |-> pos, chunks |-> chunks2, args |-> args2, text |-> text2,
              inval |-> TRUE, index |-> index]

(***************************************************************************)
(* The builder methods, as functions of a view.                            *)
(***************************************************************************)
Stmt_Select(v, expr, args) == addChunk(v, posSelect, <<"SELECT">>, expr, args, <<", ">>)
Stmt_From(v, expr, args) == addChunk(v, posFrom, <<"FROM">>, expr, args, <<", ">>)
Stmt_Where(v, expr, args) == addChunk(v, posWhere, <<"WHERE">>, expr, args, <<" AND ">>)
Stmt_GroupBy(v, expr) == addChunk(v, posGroupBy, <<"GROUP BY">>, expr, <<>>, <<", ">>)
Stmt_Having(v, expr, args) == addChunk(v, posHaving, <<"HAVING">>, expr, args, <<" AND ">>)
Stmt_OrderBy(v, expr) == addChunk(v, posOrderBy, <<"ORDER BY">>, expr, <<>>, <<", ">>)
Stmt_Limit(v, limit) == addChunk(v, posLimit, <<"LIMIT ", "?">>, <<>>, <<limit>>, <<>>)
Stmt_Offset(v, offset) == addChunk(v, posOffset, <<"OFFSET ", "?">>, <<>>, <<offset>>, <<>>)
Stmt_Returning(v, expr) == addChunk(v, posReturning, <<"RETURNING">>, expr, <<>>, <<", ">>)
Stmt_Update(v, tableName) == addChunk(v, posUpdate, <<"UPDATE">>, tableName, <<>>, <<", ">>)
Stmt_Expr(v, expr, args) == addChunk(v, v.pos, <<>>, expr, args, <<", ">>)

placeholder == <<"?">>
placeholderComma == <<"?", ",">>
joinOn == <<" ON (">>

\* In: the loop that writes one placeholder for each argument
RECURSIVE inLoop(_, _, _)
inLoop(i, l, buf) ==
    IF i > l THEN buf
    ELSE inLoop(i + 1, l, buf \o (IF i < l THEN placeholderComma ELSE placeholder))

\* a variant of In that joins its expression the way Where does
Stmt_InAsWhere(v, args) ==
    addChunk(v, posWhere, <<>>, inLoop(0, Len(args) - 1, <<"IN (">>) \o <<")">>,
             args, <<" AND ">>)

Stmt_In(v, args) ==
    addChunk(v, posWhere, <<>>, inLoop(0, Len(args) - 1, <<"IN (">>) \o <<")">>,
             args, <<" ">>)

\* a variant of join that separates the way From does
joinAsFrom(v, joinType, table, on) ==
    addChunk(v, posFrom, <<>>, joinType \o table \o joinOn \o on \o <<")">>,
             <<>>, <<", ">>)

join(v, joinType, table, on) ==
    addChunk(v, posFrom, <<>>, joinType \o table \o joinOn \o on \o <<")">>,
             <<>>, <<" ">>)

Stmt_Join(v, table, on) == join(v, <<"JOIN ">>, table, on)
Stmt_LeftJoin(v, table, on) == join(v, <<"LEFT JOIN ">>, table, on)
Stmt_RightJoin(v, table, on) == join(v, <<"RIGHT JOIN ">>, table, on)
Stmt_FullJoin(v, table, on) == join(v, <<"FULL JOIN ">>, table, on)

Stmt_Clause(v, expr, args) ==
    LET p == IF Len(v.chunks) > 0 THEN v.chunks[Len(v.chunks)].pos + 10 ELSE posStart
    IN  addChunk(v, p, expr, <<>>, args, <<", ">>)

\* the first chunk at posInsert or posUpdate decides what SetExpr does
RECURSIVE firstVerb(_)
firstVerb(chunks) ==
    IF chunks = <<>> THEN 0
    ELSE IF Head(chunks).pos = posInsert \/ Head(chunks).pos = posUpdate
    THEN Head(chunks).pos
    ELSE firstVerb(Tail(chunks))

\* a variant of SetExpr that takes every statement for an UPDATE
Stmt_SetExprAsUpdate(v, field, expr, args) ==
    addChunk(v, posSet, <<"SET">>, field \o <<"=">> \o expr, args, <<", ">>)

Stmt_SetExpr(v, field, expr, args) ==
    LET p == firstVerb(v.chunks)
    IN  IF p = posInsert
        THEN addChunk(addChunk(v, posInsertFields, <<>>, field, <<>>, <<", ">>),
                      posValues, <<>>, expr, args, <<", ">>)
        ELSE IF p = posUpdate
        THEN addChunk(v, posSet, <<"SET">>, field \o <<"=">> \o expr, args, <<", ">>)
        ELSE v

Stmt_Set(v, field, value) == Stmt_SetExpr(v, field, <<"?">>, <<value>>)

Stmt_InsertInto(v, tableName) ==
    LET v1 == addChunk(v, posInsert, <<"INSERT INTO">>, tableName, <<>>, <<", ">>)
        v2 == addChunk(v1, posInsertFields - 1, <<"(">>, <<>>, <<>>, <<>>)
        v3 == addChunk(v2, posValues - 1, <<") VALUES (">>, <<>>, <<>>, <<>>)
        v4 == addChunk(v3, posValues + 1, <<")">>, <<>>, <<>>, <<>>)
    IN  [v4 EXCEPT !.pos = posInsertFields]

\* a variant of Paginate that takes page and pageSize as they are
Stmt_PaginateUnclamped(v, page, pageSize) ==
    Stmt_Limit(IF page > 1 THEN Stmt_Offset(v, ToString((page - 1) * pageSize)) ELSE v,
               ToString(pageSize))

\* Paginate: Offset((page - 1) * pageSize) when page > 1, then Limit(pageSize)
Stmt_Paginate(v, page, pageSize) ==
    LET pg == IF page < 1 THEN 1 ELSE page
        sz == IF pageSize < 1 THEN 1 ELSE pageSize
        v1 == IF pg > 1 THEN Stmt_Offset(v, ToString((pg - 1) * sz)) ELSE v
    IN  Stmt_Limit(v1, ToString(sz))

(***************************************************************************)
(* Inputs: fragments of SQL with the arguments passed along with them.     *)
(* An argument is named after the token that precedes its placeholder, so  *)
(* that the owner of a placeholder can be read off the rendered text.      *)
(***************************************************************************)
P(name) == [expr |-> <<name, "?">>, args |-> <<name>>]
N(name) == [expr |-> <<name>>, args |-> <<>>]
E(name) == [expr |-> <<name, "\\", "?">>, args |-> <<>>]
M(name) == [expr |-> <<"\\", "?", name, "?">>, args |-> <<name>>]

SelectFrags == {P("s"), E("t")}
FromFrags == {P("f")}
WhereFrags == {P("w"), M("v")}
GroupByFrags == {N("g")}
HavingFrags == {P("h")}
OrderByFrags == {N("o")}
ReturningFrags == {N("r")}
ExprFrags == {P("x")}
ClauseFrags == {P("c")}
Tables == {<<"u">>}
Fields == {"k"}
LimitVals == {"L1", "L2"}
OffsetVals == {"O1"}

Call(m, expr, args) ==
    [dest |-> <<>>, chunks |-> <<>>, expr |-> expr, args |-> args,
     field |-> <<>>, m |-> m, depth |-> 0, child |-> 0]

\* the builder method a recorded call stands for
Apply(v, c) ==
    CASE c.m = "Select" -> Stmt_Select(v, c.expr, c.args)
      [] c.m = "From" -> Stmt_From(v, c.expr, c.args)
      \* the package-level From: From of the default dialect
      [] c.m = "sqlf.From" -> Stmt_From(v, c.expr, c.args)
      [] c.m = "Where" -> Stmt_Where(v, c.expr, c.args)
      [] c.m = "GroupBy" -> Stmt_GroupBy(v, c.expr)
      [] c.m = "Having" -> Stmt_Having(v, c.expr, c.args)
      [] c.m = "OrderBy" -> Stmt_OrderBy(v, c.expr)
      [] c.m = "Limit" -> Stmt_Limit(v, c.args[1])
      [] c.m = "Offset" -> Stmt_Offset(v, c.args[1])
      [] c.m = "Returning" -> Stmt_Returning(v, c.expr)
      [] c.m = "Update" -> Stmt_Update(v, c.expr)
      [] c.m = "Set" -> Stmt_Set(v, c.expr, c.args[1])
      [] c.m = "Expr" -> Stmt_Expr(v, c.expr, c.args)
      [] c.m = "Clause" -> Stmt_Clause(v, c.expr, c.args)
      [] c.m = "InsertInto" -> Stmt_InsertInto(v, c.expr)
      [] c.m = "SetExpr" -> Stmt_SetExpr(v, c.field, c.expr, c.args)
      [] c.m = "Paginate" -> Stmt_Paginate(v, c.args[1], c.args[2])
      [] c.m = "In" -> Stmt_In(v, c.args)
      \* the joins: expr is the table, field the ON condition
      [] c.m = "Join" -> Stmt_Join(v, c.expr, c.field)
      [] c.m = "LeftJoin" -> Stmt_LeftJoin(v, c.expr, c.field)
      [] c.m = "RightJoin" -> Stmt_RightJoin(v, c.expr, c.field)
      [] c.m = "FullJoin" -> Stmt_FullJoin(v, c.expr, c.field)
      \* To works on q.dest alone
      [] c.m = "To" -> v
      \* Clone: the chunks, arguments and fragments of the statement cloned
      [] c.m = "Clone" -> [v EXCEPT !.chunks = c.chunks, !.args = c.args,
                                    !.text = c.expr]

(***************************************************************************)
(* State.  stmts and bufs are the heap: Stmt objects and byte buffers.     *)
(* stmtPool is what has been put into stmtPool (sync.Pool), in order.      *)
(* calls (the calls made on a statement since it was obtained) and last    *)
(* (the last operation and what it returned) are history variables.        *)
(***************************************************************************)
\* newStmt: chunks is made with room for stmtChunksCap chunks, args and dest
\* are nil.  argsBack and destBack are the slots of the arrays behind args and
\* dest (all of them, used or not), chunksCap is cap(q.chunks).
stmtChunksCap == 8

Nil == "nil"

NewStmtObj == [dialect |-> NoDialect, pos |-> 0, chunks |-> <<>>, buf |-> NoBuf,
               sql |-> NoBuf, args |-> <<>>, dest |-> <<>>,
               argsBack |-> <<>>, destBack |-> <<>>, chunksCap |-> stmtChunksCap]

\* insertAt: the capacity is doubled (5 for an empty array) until the list fits
RECURSIVE GrowCap(_, _)
GrowCap(cap, n) ==
    IF cap >= n THEN cap ELSE GrowCap(IF cap = 0 THEN 5 ELSE cap * 2, n)

\* the array behind a list after insertAt made the list new: written in place
\* when the list fits, else a new array with empty slots after the list
Backing(back, new) ==
    IF GrowCap(Len(back), Len(new)) = Len(back)
    THEN new \o SubSeq(back, Len(new) + 1, Len(back))
    ELSE new \o [i \in 1..(GrowCap(Len(back), Len(new)) - Len(new)) |-> Nil]

\* addChunk: a chunk array that is full is replaced by one of twice the size
RECURSIVE ChunkCap(_, _)
ChunkCap(cap, n) == IF n <= cap THEN cap ELSE ChunkCap(cap * 2, n)

\* a variant of reuseStmt's loops that leaves the slots as they are
keepSlots(back, n) == back

\* reuseStmt: q.args[n] = nil for every n in range q.args (and q.dest)
clearSlots(back, n) == [i \in 1..Len(back) |-> IF i <= n THEN Nil ELSE back[i]]

\* goroutines, and the maps make(sqlCache) can return
MaxThreads == 2
MaxMaps == 4
Threads == 1..MaxThreads
MapIds == 1..MaxMaps
NoMap == 0

\* a goroutine: where it stands (pc) in which method (op) of which dialect (d),
\* the buffer and the text passed, and the locals key, c, res and ok
IdleThread == [pc |-> "idle", op |-> "none", d |-> NoDialect, buf |-> 0, arg |-> <<>>,
               sql |-> "", key |-> [bytes |-> <<>>, ref |-> 0], c |-> NoMap,
               res |-> "", ok |-> FALSE]

\* the execution of a statement by QueryAndClose, QueryRowAndClose or
\* ExecAndClose: the method (m), the statement (q), the statement of the
\* method's body that is next (step, 0 when none is running), where the
\* executor call stands (at), the rows not yet read, the error of a Scan,
\* the result and error the execution ended with, what the method returned,
\* and history: whether the execution has finished, the number of Close
\* calls, and whether one of them came before the execution had finished
NoError == "nil"
NoResult == "none"

NoExec == [m |-> "none", q |-> 0, step |-> 0, at |-> "none", rows |-> 0,
           scanErr |-> NoError, res |-> NoResult, err |-> NoError,
           ret |-> <<>>, finished |-> FALSE, closes |-> 0, early |-> FALSE]

NoOp == [op |-> "none", q |-> 0, text |-> <<>>, child |-> 0,
         childDialect |-> NoDialect, childCached |-> FALSE,
         childText |-> <<>>, childArgs |-> <<>>, spliced |-> <<>>,
         suffix |-> <<>>, src |-> 0, buf |-> NoBuf]

Init ==
    /\ stmts = [q \in StmtIds |-> NewStmtObj]
    /\ stmtState = [q \in StmtIds |-> "new"]
    /\ stmtPool = <<>>
    /\ bufs = [b \in BufIds |-> <<>>]
    /\ bufState = [b \in BufIds |-> "new"]
    /\ calls = [q \in StmtIds |-> <<>>]
    /\ last = NoOp
    /\ gets = 0
    \* defaultDialectPointer = newAtomicPointer(NoDialect)
    /\ defaultDialect = NoDialect
    \* history: the argument of the last SetDialect call, and the dialect each
    \* statement was obtained with
    /\ lastSet = NoDialect
    /\ origin = [q \in StmtIds |-> NoDialect]
    \* NoDialect and PostgreSQL are &Dialect{}: no cache yet, nothing locked
    /\ cacheOnce = [d \in Dialects |-> FALSE]
    /\ cacheLock = [d \in Dialects |-> [writer |-> 0, readers |-> {}]]
    /\ cache = [d \in Dialects |-> NoMap]
    /\ maps = [m \in MapIds |-> {}]
    /\ thr = [t \in Threads |-> IdleThread]
    \* history: what putCachedSQL stored for each dialect since its last
    \* ClearCache, and the number of calls made
    /\ stored = [d \in Dialects |-> {}]
    /\ ops = 0
    \* no statement is being executed
    /\ exec = NoExec

Live(q) == stmtState[q] = "live"

Range(s) == {s[i] : i \in DOMAIN s}

Min(S) == CHOOSE x \in S : \A y \in S : x <= y

\* getBuffer: a buffer that was put into the pool, or a new one.  A buffer is
\* reset when it is put, so buffers in the pool are all alike, and the least
\* one stands for any of them.
PoolGet(state) ==
    IF \E x \in DOMAIN state : state[x] # "owned"
    THEN {Min({x \in DOMAIN state : state[x] # "owned"})}
    ELSE {}

RemoveOne(seq, x) ==
    LET i == CHOOSE j \in DOMAIN seq : seq[j] = x
    IN  Slice(seq, 0, i - 1) \o Slice(seq, i, Len(seq))

View(q) == [pos |-> stmts[q].pos, chunks |-> stmts[q].chunks, args |-> stmts[q].args,
            text |-> bufs[stmts[q].buf], inval |-> FALSE, index |-> 0]

String(q) == Render(stmts[q].chunks, bufs[stmts[q].buf], stmts[q].dialect)

\* Invalidate: putBuffer(q.sql) resets the buffer and pools it
InvalidateBufs(bs, q) ==
    IF stmts[q].sql # NoBuf THEN [bs EXCEPT ![stmts[q].sql] = <<>>] ELSE bs

InvalidateState(st, q) ==
    IF stmts[q].sql # NoBuf THEN [st EXCEPT ![stmts[q].sql] = "pooled"] ELSE st

\* the statement q after a builder method turned its view into v
Commit(q, v, c) ==
    /\ stmts' = [stmts EXCEPT ![q] =
                    [@ EXCEPT !.pos = v.pos, !.chunks = v.chunks, !.args = v.args,
                              !.argsBack = Backing(@, v.args),
                              !.chunksCap = ChunkCap(@, Len(v.chunks)),
                              !.sql = IF v.inval THEN NoBuf ELSE @]]
    /\ bufs' = [(IF v.inval THEN InvalidateBufs(bufs, q) ELSE bufs)
                    EXCEPT ![stmts[q].buf] = v.text]
    /\ bufState' = IF v.inval THEN InvalidateState(bufState, q) ELSE bufState
    /\ calls' = [calls EXCEPT ![q] = Append(@, c)]
    /\ last' = [NoOp EXCEPT !.op = c.m, !.q = q]
    /\ UNCHANGED <<stmtState, stmtPool, gets, libVars, origin, exec>>

\* a builder method called on a statement in use
Builder(q, c) ==
    /\ Live(q)
    /\ Len(calls[q]) < MaxCalls
    /\ \E v \in {Apply(View(q), c)} : Commit(q, v, c)

\* stmtPool.Get: a statement that was put into the pool, or a new one
StmtPoolGet ==
    Range(stmtPool)
    \cup (IF \E q \in StmtIds : stmtState[q] = "new"
          THEN {Min({q \in StmtIds : stmtState[q] = "new"})}
          ELSE {})

\* getStmt(d) followed by the constructor's builder method
Construct(d, c) ==
    \E q \in StmtPoolGet, b \in PoolGet(bufState) :
        \E v \in {Apply([pos |-> stmts[q].pos, chunks |-> stmts[q].chunks,
                         args |-> stmts[q].args, text |-> bufs[b], inval |-> FALSE,
                         index |-> 0], c)} :
            /\ gets < MaxGets
            /\ gets' = gets + 1
            /\ stmts' = [stmts EXCEPT ![q] =
                            [@ EXCEPT !.dialect = d, !.buf = b, !.pos = v.pos,
                                      !.chunks = v.chunks, !.args = v.args,
                                      !.argsBack = Backing(@, v.args),
                                      !.chunksCap = ChunkCap(@, Len(v.chunks))]]
            /\ stmtState' = [stmtState EXCEPT ![q] = "live"]
            /\ stmtPool' = IF q \in Range(stmtPool) THEN RemoveOne(stmtPool, q)
                           ELSE stmtPool
            /\ bufs' = [bufs EXCEPT ![b] = v.text]
            /\ bufState' = [bufState EXCEPT ![b] = "owned"]
            /\ calls' = [calls EXCEPT ![q] = <<c>>]
            /\ last' = [NoOp EXCEPT !.op = c.m, !.q = q]
            /\ origin' = [origin EXCEPT ![q] = d]
            /\ UNCHANGED <<libVars, exec>>

Dialect_From(d, f) == Construct(d, Call("From", f.expr, f.args))
Dialect_Select(d, f) == Construct(d, Call("Select", f.expr, f.args))
Dialect_Update(d, t) == Construct(d, Call("Update", t, <<>>))

Select(q, f) == Builder(q, Call("Select", f.expr, f.args))
From(q, f) == Builder(q, Call("From", f.expr, f.args))
Where(q, f) == Builder(q, Call("Where", f.expr, f.args))
GroupBy(q, f) == Builder(q, Call("GroupBy", f.expr, <<>>))
Having(q, f) == Builder(q, Call("Having", f.expr, f.args))
OrderBy(q, f) == Builder(q, Call("OrderBy", f.expr, <<>>))
Limit(q, limit) == Builder(q, Call("Limit", <<>>, <<limit>>))
Offset(q, offset) == Builder(q, Call("Offset", <<>>, <<offset>>))
Returning(q, f) == Builder(q, Call("Returning", f.expr, <<>>))
Set(q, field) == Builder(q, Call("Set", <<field>>, <<field>>))
Expr(q, f) == Builder(q, Call("Expr", f.expr, f.args))
Clause(q, f) == Builder(q, Call("Clause", f.expr, f.args))

\* Stmt.String: renders into a buffer from the pool unless a rendered text is kept
DoString(q) ==
    /\ Live(q)
    /\ IF stmts[q].sql = NoBuf
       THEN \E b \in PoolGet(bufState) :
               /\ bufs' = [bufs EXCEPT ![b] = String(q)]
               /\ bufState' = [bufState EXCEPT ![b] = "owned"]
               /\ stmts' = [stmts EXCEPT ![q].sql = b]
               /\ last' = [NoOp EXCEPT !.op = "String", !.q = q, !.text = String(q)]
       ELSE /\ last' = [NoOp EXCEPT !.op = "String", !.q = q,
                                    !.text = bufs[stmts[q].sql]]
            /\ UNCHANGED <<stmts, bufs, bufState>>
    /\ UNCHANGED <<stmtState, stmtPool, calls, gets, libVars, origin>>

Stmt_String(q) == DoString(q) /\ UNCHANGED exec

(***************************************************************************)
(* Embedding a child statement: SubQuery, With and Union.                  *)
(***************************************************************************)
\* SubQuery's and Union's work on the parent: addChunk with the child's
\* arguments, then the child's text (and the suffix) at the end of the buffer
Stmt_SubQuery(v, prefix, suffix, childText, childArgs) ==
    LET delimiter == IF v.pos = posWhere THEN <<" AND ">> ELSE <<", ">>
        a == addChunk(v, v.pos, <<>>, prefix, childArgs, delimiter)
        text == a.text \o childText \o suffix
    IN  [a EXCEPT !.text = text,
                  !.chunks = [a.chunks EXCEPT ![a.index + 1].bufHigh = Len(text)]]

\* a variant of With that writes the keyword in front of every item
Stmt_WithEachKeyword(v, queryName, childText, childArgs) ==
    Stmt_SubQuery([v EXCEPT !.pos = posWith], <<"WITH", " ", queryName, " AS (">>,
                  <<")">>, childText, childArgs)

Stmt_With(v, queryName, childText, childArgs) ==
    Stmt_SubQuery(addChunk(v, posWith, <<"WITH">>, <<>>, <<>>, <<>>),
                  <<queryName, " AS (">>, <<")">>, childText, childArgs)

\* a variant of Union that puts every UNION at posUnion
Stmt_UnionSamePos(v, all, childText, childArgs) ==
    LET a == addChunk(v, posUnion, IF all THEN <<"UNION ALL ">> ELSE <<"UNION ">>,
                      <<>>, childArgs, <<>>)
        text == a.text \o childText
    IN  [a EXCEPT !.text = text,
                  !.chunks = [a.chunks EXCEPT ![a.index + 1].bufHigh = Len(text)]]

Stmt_Union(v, all, childText, childArgs) ==
    LET n == Len(v.chunks)
        p == IF n > 0 /\ v.chunks[n].pos >= posUnion THEN v.chunks[n].pos + 1
             ELSE posUnion
        a == addChunk(v, p, IF all THEN <<"UNION ALL ">> ELSE <<"UNION ">>,
                      <<>>, childArgs, <<>>)
        text == a.text \o childText
    IN  [a EXCEPT !.text = text,
                  !.chunks = [a.chunks EXCEPT ![a.index + 1].bufHigh = Len(text)]]

\* a variant that switches the child to NoDialect but keeps its rendered text
ChildTextKeepCache(c) ==
    IF stmts[c].sql = NoBuf
    THEN Render(stmts[c].chunks, bufs[stmts[c].buf], NoDialect)
    ELSE bufs[stmts[c].sql]

\* query.String() after "Make sure subquery is not dialect-specific"
ChildText(c) ==
    IF stmts[c].dialect # NoDialect \/ stmts[c].sql = NoBuf
    THEN Render(stmts[c].chunks, bufs[stmts[c].buf], NoDialect)
    ELSE bufs[stmts[c].sql]

\* a variant that puts the statement into the pool twice
reuseStmtTwice(pool, q) == pool \o <<q, q>>

\* reuseStmt: stmtPool.Put(q)
reuseStmt(pool, q) == Append(pool, q)

\* a variant of reuseStmt that leaves q.sql as it is
ReusedKeepSql(q) == [stmts[q] EXCEPT !.chunks = <<>>, !.args = <<>>, !.dest = <<>>,
                                     !.buf = NoBuf]

\* the statement object after reuseStmt cleared it
Reused(q) == [stmts[q] EXCEPT !.chunks = <<>>, !.args = <<>>, !.dest = <<>>,
                              !.argsBack = clearSlots(@, Len(stmts[q].args)),
                              !.destBack = clearSlots(@, Len(stmts[q].dest)),
                              !.buf = NoBuf, !.sql = NoBuf]

\* how deep the statements embedded into q are nested
Depth(q) ==
    LET ds == {calls[q][i].depth : i \in DOMAIN calls[q]}
    IN  CHOOSE d \in ds \cup {0} : \A e \in ds \cup {0} : e <= d

\* Parent p took child c in: v is p's view after the method m, built with
\* ChildText(c) and the child's arguments.  The child is rendered without a
\* dialect (into a buffer of its own unless it keeps a NoDialect text), and
\* closed.
Embed(p, c, m, v, prefix, suffix) ==
    LET psql == stmts[p].sql
        csql == stmts[c].sql
        cached == csql # NoBuf
        pinval == v.inval /\ psql # NoBuf
        rerender == stmts[c].dialect # NoDialect \/ ~cached
        st1 == IF pinval THEN [bufState EXCEPT ![psql] = "pooled"] ELSE bufState
        st2 == IF stmts[c].dialect # NoDialect /\ cached
               THEN [st1 EXCEPT ![csql] = "pooled"] ELSE st1
        bs1 == IF pinval THEN [bufs EXCEPT ![psql] = <<>>] ELSE bufs
        bs2 == IF cached THEN [bs1 EXCEPT ![csql] = <<>>] ELSE bs1
    IN  \E t \in (IF rerender THEN PoolGet(st2) ELSE {csql}) :
            /\ stmts' = [stmts EXCEPT
                           ![p] = [@ EXCEPT !.pos = v.pos, !.chunks = v.chunks,
                                            !.args = v.args,
                                            !.argsBack = Backing(@, v.args),
                                            !.chunksCap = ChunkCap(@, Len(v.chunks)),
                                            !.sql = IF v.inval THEN NoBuf ELSE @],
                           ![c] = [Reused(c) EXCEPT !.dialect = NoDialect]]
            /\ bufs' = [bs2 EXCEPT ![t] = <<>>, ![stmts[c].buf] = <<>>,
                                   ![stmts[p].buf] = v.text]
            \* q.sql is dropped by reuseStmt, q.buf is put into the pool
            /\ bufState' = [st2 EXCEPT ![t] = "new", ![stmts[c].buf] = "pooled"]
            /\ stmtState' = [stmtState EXCEPT ![c] = "pooled"]
            /\ stmtPool' = reuseStmt(stmtPool, c)
            /\ calls' = [calls EXCEPT
                           ![p] = Append(@, [Call(m, ChildText(c), stmts[c].args)
                                                EXCEPT !.depth = Depth(c) + 1, !.child = c,
                                                       !.field = prefix]),
                           ![c] = <<>>]
            /\ last' = [NoOp EXCEPT !.op = m, !.q = p, !.child = c,
                           !.childDialect = stmts[c].dialect,
                           !.childCached = cached,
                           !.childText = Render(stmts[c].chunks, bufs[stmts[c].buf],
                                                NoDialect),
                           !.childArgs = stmts[c].args,
                           !.spliced = ChildText(c),
                           !.suffix = suffix]
            /\ UNCHANGED <<gets, libVars, origin, exec>>

CanEmbed(p, c) ==
    /\ Live(p) /\ Live(c) /\ p # c
    /\ Len(calls[p]) < MaxCalls
    /\ Depth(c) < MaxDepth

SubQuery(p, c, prefix, suffix) ==
    /\ CanEmbed(p, c)
    /\ \E v \in {Stmt_SubQuery(View(p), prefix, suffix, ChildText(c), stmts[c].args)} :
          Embed(p, c, "SubQuery", v, prefix, suffix)

With(p, c, queryName) ==
    /\ CanEmbed(p, c)
    /\ \E v \in {Stmt_With(View(p), queryName, ChildText(c), stmts[c].args)} :
          Embed(p, c, "With", v, <<queryName, " AS (">>, <<")">>)

Union(p, c, all) ==
    /\ CanEmbed(p, c)
    /\ \E v \in {Stmt_Union(View(p), all, ChildText(c), stmts[c].args)} :
          Embed(p, c, "Union", v, IF all THEN <<"UNION ALL ">> ELSE <<"UNION ">>, <<>>)

\* Stmt.Close: reuseStmt(q)
DoClose(q) ==
    /\ Live(q)
    /\ stmts' = [stmts EXCEPT ![q] = Reused(q)]
    /\ bufs' = [bufs EXCEPT ![stmts[q].buf] = <<>>,
                            ![IF stmts[q].sql # NoBuf THEN stmts[q].sql
                              ELSE stmts[q].buf] = <<>>]
    /\ bufState' = [bufState EXCEPT ![stmts[q].buf] = "pooled",
                                    ![IF stmts[q].sql # NoBuf THEN stmts[q].sql
                                      ELSE stmts[q].buf] =
                                        IF stmts[q].sql # NoBuf THEN "new"
                                        ELSE "pooled"]
    /\ stmtState' = [stmtState EXCEPT ![q] = "pooled"]
    /\ stmtPool' = reuseStmt(stmtPool, q)
    /\ calls' = [calls EXCEPT ![q] = <<>>]
    /\ last' = [NoOp EXCEPT !.op = "Close", !.q = q, !.buf = stmts[q].buf]
    /\ UNCHANGED <<gets, libVars, origin>>

Close(q) == DoClose(q) /\ UNCHANGED exec


(***************************************************************************)
(* InsertInto, SetExpr, Paginate, To and Clone                             *)
(***************************************************************************)
\* a builder method called on a statement that had fewer than n calls
CallUpTo(q, c, n) ==
    /\ Live(q)
    /\ Len(calls[q]) < n
    /\ \E v \in {Apply(View(q), c)} : Commit(q, v, c)

Dialect_InsertInto(d, t) == Construct(d, Call("InsertInto", t, <<>>))

SetExprCall(field, f) == [Call("SetExpr", f.expr, f.args) EXCEPT !.field = <<field>>]

\* a variant of To that puts the pointers in front of the list
ToIndexFront(dest) == 0

\* To: q.dest = insertAt(q.dest, dest, len(q.dest))
ToIndex(dest) == Len(dest)

Stmt_To(q, d, n) ==
    /\ Live(q)
    /\ Len(calls[q]) < n
    /\ d # <<>>
    /\ stmts' = [stmts EXCEPT ![q] =
                    [@ EXCEPT !.dest = insertAt(@, d, ToIndex(@)),
                              !.destBack = Backing(@, insertAt(stmts[q].dest, d,
                                                               ToIndex(stmts[q].dest)))]]
    /\ calls' = [calls EXCEPT ![q] = Append(@, [Call("To", <<>>, <<>>)
                                                  EXCEPT !.dest = d])]
    /\ last' = [NoOp EXCEPT !.op = "To", !.q = q]
    /\ UNCHANGED <<stmtState, stmtPool, bufs, bufState, gets, libVars, origin, exec>>

\* a variant of Clone that takes over the rendered-text buffer of the original
shareSql(qsql, b) == qsql

\* Clone: stmt.sql = getBuffer(), filled with a copy of q.sql
cloneSql(qsql, b) == b

\* a variant of Clone that makes the larger chunk array with length 0
cloneChunksEmpty(chunks, cap, qchunks) ==
    IF cap < Len(qchunks) THEN <<>> ELSE chunks \o qchunks

\* Clone: a chunk array of its own when the chunks do not fit, else append
cloneChunks(chunks, cap, qchunks) ==
    IF cap < Len(qchunks) THEN qchunks ELSE chunks \o qchunks

\* the Stmt object stmt after Clone copied the statement q into it; b is the
\* buffer getStmt gave it, b2 the buffer for the rendered text
CloneInto(stmt, q, b, b2) ==
    LET n == Len(stmts[q].chunks)
        args == insertAt(stmt.args, stmts[q].args, 0)
        dest == insertAt(stmt.dest, stmts[q].dest, 0)
    IN  [stmt EXCEPT
            !.dialect = stmts[q].dialect,
            !.buf = b,
            !.chunks = cloneChunks(stmt.chunks, stmt.chunksCap, stmts[q].chunks),
            !.chunksCap = IF @ < n THEN n + 2 ELSE @,
            !.args = args, !.argsBack = Backing(@, args),
            !.dest = dest, !.destBack = Backing(@, dest),
            !.sql = IF stmts[q].sql # NoBuf THEN cloneSql(stmts[q].sql, b2) ELSE @]

Clone(q) ==
    /\ Live(q)
    /\ gets < MaxGets
    /\ \E q2 \in StmtPoolGet, b \in PoolGet(bufState) :
        \E b2 \in (IF stmts[q].sql # NoBuf
                   THEN PoolGet([bufState EXCEPT ![b] = "owned"]) ELSE {b}) :
            /\ stmts' = [stmts EXCEPT ![q2] = CloneInto(@, q, b, b2)]
            /\ stmtState' = [stmtState EXCEPT ![q2] = "live"]
            /\ stmtPool' = IF q2 \in Range(stmtPool) THEN RemoveOne(stmtPool, q2)
                           ELSE stmtPool
            /\ bufs' = IF stmts[q].sql # NoBuf
                       THEN [bufs EXCEPT ![b] = @ \o bufs[stmts[q].buf],
                                         ![b2] = @ \o bufs[stmts[q].sql]]
                       ELSE [bufs EXCEPT ![b] = @ \o bufs[stmts[q].buf]]
            /\ bufState' = [bufState EXCEPT ![b] = "owned", ![b2] = "owned"]
            /\ calls' = [calls EXCEPT ![q2] =
                           <<[Call("Clone", bufs[stmts[q].buf], stmts[q].args)
                                EXCEPT !.chunks = stmts[q].chunks,
                                       !.dest = stmts[q].dest]>>]
            /\ last' = [NoOp EXCEPT !.op = "Clone", !.q = q2, !.src = q]
            /\ gets' = gets + 1
            /\ origin' = [origin EXCEPT ![q2] = stmts[q].dialect]
            /\ UNCHANGED <<libVars, exec>>


(***************************************************************************)
(* SpecBuild: one statement, built by the clause methods, Expr and Clause  *)
(* and rendered at any moment.                                             *)
(***************************************************************************)
NoneLive == \A q \in StmtIds : ~Live(q)

BuildNext ==
    \/ \E d \in Dialects, f \in FromFrags : NoneLive /\ Dialect_From(d, f)
    \/ \E d \in Dialects, f \in SelectFrags : NoneLive /\ Dialect_Select(d, f)
    \/ \E d \in Dialects, t \in Tables : NoneLive /\ Dialect_Update(d, t)
    \/ \E q \in StmtIds, f \in SelectFrags : Select(q, f)
    \/ \E q \in StmtIds, f \in FromFrags : From(q, f)
    \/ \E q \in StmtIds, f \in WhereFrags : Where(q, f)
    \/ \E q \in StmtIds, f \in GroupByFrags : GroupBy(q, f)
    \/ \E q \in StmtIds, f \in HavingFrags : Having(q, f)
    \/ \E q \in StmtIds, f \in OrderByFrags : OrderBy(q, f)
    \/ \E q \in StmtIds, l \in LimitVals : Limit(q, l)
    \/ \E q \in StmtIds, o \in OffsetVals : Offset(q, o)
    \/ \E q \in StmtIds, f \in ReturningFrags : Returning(q, f)
    \/ \E q \in StmtIds, k \in Fields : Set(q, k)
    \/ \E q \in StmtIds, f \in ExprFrags : Expr(q, f)
    \/ \E q \in StmtIds, f \in ClauseFrags : Clause(q, f)
    \/ \E q \in StmtIds : Stmt_String(q)

SpecBuild == Init /\ [][BuildNext]_vars

(***************************************************************************)
(* Spec: several statements, obtained from the pool, built, rendered,      *)
(* embedded into one another and closed.                                   *)
(***************************************************************************)
ChildWhereFrags == {P("w")}
Prefixes == {<<>>, <<"(">>}
Suffixes == {<<")">>}
QueryNames == {"n"}

Next ==
    \/ \E d \in Dialects, f \in FromFrags : Dialect_From(d, f)
    \/ \E q \in StmtIds, f \in ChildWhereFrags : Where(q, f)
    \/ \E q \in StmtIds : Stmt_String(q)
    \/ \E p \in StmtIds, c \in StmtIds, prefix \in Prefixes, suffix \in Suffixes :
          SubQuery(p, c, prefix, suffix)
    \/ \E p \in StmtIds, c \in StmtIds, queryName \in QueryNames :
          With(p, c, queryName)
    \/ \E p \in StmtIds, c \in StmtIds, all \in BOOLEAN : Union(p, c, all)
    \/ \E q \in StmtIds : Close(q)

Spec == Init /\ [][Next]_vars

(***************************************************************************)
(* SpecPool: statements obtained from the pool by a constructor or by      *)
(* Clone, built, rendered and closed.                                      *)
(***************************************************************************)
PoolDialects == {PostgreSQL}
Targets == {<<"&d">>}

PoolNext ==
    \/ \E d \in PoolDialects, f \in FromFrags : Dialect_From(d, f)
    \/ \E q \in StmtIds, f \in ExprFrags :
          CallUpTo(q, Call("Expr", f.expr, f.args), MaxCalls)
    \/ \E q \in StmtIds, d \in Targets : Stmt_To(q, d, MaxCalls)
    \/ \E q \in StmtIds : Stmt_String(q)
    \/ \E q \in StmtIds : Clone(q)
    \/ \E q \in StmtIds : Close(q)

SpecPool == Init /\ [][PoolNext]_vars

(***************************************************************************)
(* SpecInsert: an INSERT statement, its columns and values, and clones of  *)
(* it (which have more chunks than a new Stmt has room for).               *)
(***************************************************************************)
SetExprFrags == {P("e")}
ExprFields == {"j"}

InsertNext ==
    \/ \E d \in Dialects, t \in Tables : NoneLive /\ Dialect_InsertInto(d, t)
    \/ \E q \in StmtIds, k \in Fields :
          CallUpTo(q, Call("Set", <<k>>, <<k>>), MaxPoolCalls)
    \/ \E q \in StmtIds, k \in ExprFields, f \in SetExprFrags :
          CallUpTo(q, SetExprCall(k, f), MaxPoolCalls)
    \/ \E q \in StmtIds, f \in ClauseFrags :
          CallUpTo(q, Call("Clause", f.expr, f.args), MaxPoolCalls)
    \/ \E q \in StmtIds : Stmt_String(q)
    \/ \E q \in StmtIds : Clone(q)

SpecInsert == Init /\ [][InsertNext]_vars

(***************************************************************************)
(* SpecTo: one SELECT statement, its columns and the scan targets given    *)
(* for them with To, with other clauses added in between.                  *)
(***************************************************************************)
ColumnFrags == {N("a"), N("b")}
Pointers == {"&a", "&b"}

ToNext ==
    \/ \E d \in Dialects, f \in ColumnFrags : NoneLive /\ Dialect_Select(d, f)
    \/ \E q \in StmtIds, f \in ColumnFrags :
          CallUpTo(q, Call("Select", f.expr, f.args), MaxToCalls)
    \/ \E q \in StmtIds, f \in ChildWhereFrags :
          CallUpTo(q, Call("Where", f.expr, f.args), MaxToCalls)
    \/ \E q \in StmtIds, d \in Pointers : Stmt_To(q, <<d>>, MaxToCalls)
    \/ \E q \in StmtIds : Stmt_String(q)

SpecTo == Init /\ [][ToNext]_vars

(***************************************************************************)
(* SpecWith: statements with WITH items, added before, between and after   *)
(* other clauses.                                                          *)
(***************************************************************************)
WithNames == {"n", "m"}

\* With called on a statement that had fewer than n calls
WithUpTo(p, c, queryName, n) ==
    /\ Live(p) /\ Live(c) /\ p # c
    /\ Len(calls[p]) < n
    /\ Depth(c) < MaxDepth
    /\ \E v \in {Stmt_With(View(p), queryName, ChildText(c), stmts[c].args)} :
          Embed(p, c, "With", v, <<queryName, " AS (">>, <<")">>)

WithNext ==
    \/ \E d \in Dialects, f \in FromFrags : Dialect_From(d, f)
    \/ \E q \in StmtIds, f \in ChildWhereFrags :
          CallUpTo(q, Call("Where", f.expr, f.args), MaxWithCalls)
    \/ \E p \in StmtIds, c \in StmtIds, queryName \in WithNames :
          WithUpTo(p, c, queryName, MaxWithCalls)
    \/ \E q \in StmtIds : Stmt_String(q)

SpecWith == Init /\ [][WithNext]_vars

(***************************************************************************)
(* SpecUnion: statements with ORDER BY and OFFSET clauses, joined by       *)
(* Union.                                                                  *)
(***************************************************************************)
UnionNext ==
    \/ \E d \in PoolDialects, f \in FromFrags : Dialect_From(d, f)
    \/ \E q \in StmtIds, f \in OrderByFrags :
          CallUpTo(q, Call("OrderBy", f.expr, <<>>), MaxCalls)
    \/ \E q \in StmtIds, o \in OffsetVals :
          CallUpTo(q, Call("Offset", <<>>, <<o>>), MaxCalls)
    \/ \E q \in StmtIds, f \in ChildWhereFrags :
          CallUpTo(q, Call("Where", f.expr, f.args), MaxCalls)
    \/ \E p \in StmtIds, c \in StmtIds, all \in BOOLEAN : Union(p, c, all)
    \/ \E q \in StmtIds : Stmt_String(q)

SpecUnion == Init /\ [][UnionNext]_vars

(***************************************************************************)
(* Reading a rendered text.                                                *)
(***************************************************************************)
OwnerTokens == {"s", "t", "f", "w", "v", "h", "x", "c", "k", "LIMIT ", "OFFSET "}

ArgOwner(a) == IF a \in LimitVals THEN "LIMIT "
               ELSE IF a \in OffsetVals THEN "OFFSET " ELSE a

\* an unescaped ? of a passthrough text, or the $ of a numbered placeholder
IsPlaceholder(text, i, dialect) ==
    IF dialect = PostgreSQL
    THEN text[i] = "$"
    ELSE text[i] = "?" /\ ~(i > 1 /\ text[i - 1] = "\\")

\* for each placeholder of text, left to right, the owner token before it
RECURSIVE OwnersFrom(_, _, _, _, _)
OwnersFrom(text, i, dialect, cur, acc) ==
    IF i > Len(text) THEN acc
    ELSE OwnersFrom(text, i + 1, dialect,
                    IF text[i] \in OwnerTokens THEN text[i] ELSE cur,
                    IF IsPlaceholder(text, i, dialect) THEN Append(acc, cur) ELSE acc)

Owners(text, dialect) == OwnersFrom(text, 1, dialect, "", <<>>)

ArgOwners(args) == [i \in 1..Len(args) |-> ArgOwner(args[i])]

\* the tokens that follow the $ signs of a text
DollarNums(text) ==
    LET idx == {i \in 1..Len(text) : text[i] = "$"}
        Sel(i) == text[i] = "$"
        RECURSIVE Collect(_, _)
        Collect(i, acc) ==
            IF i > Len(text) THEN acc
            ELSE Collect(i + 1, IF text[i] = "$" THEN Append(acc, text[i + 1]) ELSE acc)
    IN  Collect(1, <<>>)

Count(text, tok) == Cardinality({i \in 1..Len(text) : text[i] = tok})

SplitClause(q) ==
    \E i \in 1..(Len(stmts[q].chunks) - 1) :
        stmts[q].chunks[i].pos = stmts[q].chunks[i + 1].pos

(***************************************************************************)
(* The nine clause methods in canonical order, and a statement built from  *)
(* a list of calls.                                                        *)
(***************************************************************************)
ClauseOrder == <<"Select", "From", "Where", "GroupBy", "Having", "OrderBy",
                 "Limit", "Offset", "Returning">>

Keyword(m) ==
    CASE m = "Select" -> "SELECT" [] m = "From" -> "FROM" [] m = "Where" -> "WHERE"
      [] m = "GroupBy" -> "GROUP BY" [] m = "Having" -> "HAVING"
      [] m = "OrderBy" -> "ORDER BY" [] m = "Limit" -> "LIMIT "
      [] m = "Offset" -> "OFFSET " [] m = "Returning" -> "RETURNING"
      [] m = "Update" -> "UPDATE" [] m = "Set" -> "SET"

OnlyCalls(cs, ms) == \A i \in 1..Len(cs) : cs[i].m \in ms

CallsOf(cs, m) == SelectSeq(cs, LAMBDA c : c.m = m)

RECURSIVE SortedFrom(_, _)
SortedFrom(cs, k) ==
    IF k > Len(ClauseOrder) THEN <<>>
    ELSE CallsOf(cs, ClauseOrder[k]) \o SortedFrom(cs, k + 1)

\* the same calls, clause by clause, calls to one clause in their order
Sorted(cs) == SortedFrom(cs, 1)

EmptyView == [pos |-> 0, chunks |-> <<>>, args |-> <<>>, text |-> <<>>,
              inval |-> FALSE, index |-> 0]

RECURSIVE BuildFrom(_, _)
BuildFrom(v, cs) == IF cs = <<>> THEN v ELSE BuildFrom(Apply(v, Head(cs)), Tail(cs))

Build(cs) == BuildFrom(EmptyView, cs)

KeywordsIn(text) == SelectSeq(text, LAMBDA t : \E k \in 1..Len(ClauseOrder) :
                                                  t = Keyword(ClauseOrder[k]))

KeywordRank(t) == CHOOSE k \in 1..Len(ClauseOrder) : t = Keyword(ClauseOrder[k])

Ascending(ks) == \A i \in 1..(Len(ks) - 1) : KeywordRank(ks[i]) < KeywordRank(ks[i + 1])

(***************************************************************************)
(* C1: a statement built with the nine clause methods renders, and lists   *)
(* its arguments, exactly as the statement built from the same calls made  *)
(* clause by clause does, with the clauses in canonical order; under both  *)
(* dialects and however the clauses were split into chunks.                *)
(***************************************************************************)
C1_OrderIndependent ==
    (last.op = "String" /\ OnlyCalls(calls[last.q], Range(ClauseOrder)))
    => LET q == last.q
           b == Build(Sorted(calls[q]))
       IN  /\ last.text = Render(b.chunks, b.text, stmts[q].dialect)
           /\ stmts[q].args = b.args
           /\ Ascending(KeywordsIn(last.text))

C1_OrderIndependentPassthrough ==
    (last.op = "String" /\ stmts[last.q].dialect = NoDialect) => C1_OrderIndependent

(***************************************************************************)
(* C2: built with the clause methods, the text holds each clause keyword   *)
(* at most once, followed by the expressions added to the clause in call   *)
(* order, joined by " AND " (Where, Having) or ", " (the other clauses).   *)
(***************************************************************************)
ClauseMethods == {"Select", "From", "Where", "GroupBy", "Having", "OrderBy",
                  "Limit", "Offset", "Returning", "Update", "Set"}

RenderOrder == <<"Update", "Set", "Select", "From", "Where", "GroupBy", "Having",
                 "OrderBy", "Limit", "Offset", "Returning">>

Sep(m) == IF m \in {"Where", "Having"} THEN <<" AND ">> ELSE <<", ">>

RECURSIVE JoinExprs(_, _)
JoinExprs(es, sep) ==
    IF es = <<>> THEN <<>>
    ELSE IF Len(es) = 1 THEN es[1]
    ELSE es[1] \o sep \o JoinExprs(Tail(es), sep)

\* the SET items: Set has an effect once the statement has an UPDATE clause
RECURSIVE SetItems(_, _, _)
SetItems(cs, updating, acc) ==
    IF cs = <<>> THEN acc
    ELSE SetItems(Tail(cs), updating \/ Head(cs).m = "Update",
                  IF Head(cs).m = "Set" /\ updating
                  THEN Append(acc, Head(cs).expr \o <<"=", "?">>)
                  ELSE acc)

\* the expressions the calls of method m added to its clause
ExprsOf(cs, m) ==
    IF m = "Set"
    THEN SetItems(cs, FALSE, <<>>)
    ELSE LET sel == CallsOf(cs, m) IN [k \in 1..Len(sel) |-> sel[k].expr]

ClauseText(cs, m) ==
    IF m \in {"Limit", "Offset"}
    THEN IF CallsOf(cs, m) = <<>> THEN <<>> ELSE <<Keyword(m), "?">>
    ELSE IF ExprsOf(cs, m) = <<>> THEN <<>>
    ELSE <<Keyword(m), " ">> \o JoinExprs(ExprsOf(cs, m), Sep(m))

RECURSIVE ExpectedFrom(_, _, _)
ExpectedFrom(cs, k, acc) ==
    IF k > Len(RenderOrder) THEN acc
    ELSE LET t == ClauseText(cs, RenderOrder[k])
         IN  ExpectedFrom(cs, k + 1,
                          IF t = <<>> THEN acc
                          ELSE IF acc = <<>> THEN t ELSE acc \o <<" ">> \o t)

Expected(cs) == ExpectedFrom(cs, 1, <<>>)

RECURSIVE Escapes(_)
Escapes(cs) ==
    IF cs = <<>> THEN 0
    ELSE Count(Head(cs).expr, "\\") + Escapes(Tail(cs))

\* C5: no backslash is left, every \? gave one literal ?, numbering unaffected
C5_PgEscape ==
    (last.op = "String" /\ stmts[last.q].dialect = PostgreSQL
        /\ OnlyCalls(calls[last.q], Range(ClauseOrder)))
    => /\ Count(last.text, "\\") = 0
       /\ Count(last.text, "?") = Escapes(calls[last.q])
       /\ DollarNums(last.text) = [i \in 1..Len(stmts[last.q].args) |-> ToString(i)]

(***************************************************************************)
(* Embedded statements                                                     *)
(***************************************************************************)
EmbedOps == {"SubQuery", "With", "Union"}

HasEmbedded(q) == \E i \in DOMAIN calls[q] : calls[q][i].m \in EmbedOps

EndsWith(text, tail) ==
    /\ Len(text) >= Len(tail)
    /\ Slice(text, Len(text) - Len(tail), Len(text)) = tail

(***************************************************************************)
(* C6: a PostgreSQL statement that embedded a child with placeholders      *)
(* renders with one numbering $1..$N over parent and child, and $k is      *)
(* the placeholder of Args()[k-1].                                         *)
(***************************************************************************)
C6_GlobalNumbering ==
    (last.op = "String" /\ stmts[last.q].dialect = PostgreSQL
        /\ HasEmbedded(last.q))
    => /\ DollarNums(last.text) = [i \in 1..Len(stmts[last.q].args) |-> ToString(i)]
       /\ Owners(last.text, PostgreSQL) = ArgOwners(stmts[last.q].args)

(***************************************************************************)
(* C7: after SubQuery, With or Union the parent's arguments hold the       *)
(* child's arguments where the child's text renders: the Nth placeholder   *)
(* of the parent's text belongs to the fragment of the Nth argument.       *)
(***************************************************************************)
C7_ChildArgsInserted ==
    last.op \in EmbedOps
    => LET p == last.q
       IN  Owners(Render(stmts[p].chunks, bufs[stmts[p].buf], NoDialect), NoDialect)
             = ArgOwners(stmts[p].args)

(***************************************************************************)
(* C8: the text of a child that SubQuery, With or Union writes into the    *)
(* parent holds no $N: a PostgreSQL child, rendered before or not, is      *)
(* written as its NoDialect text with the raw ? placeholders.              *)
(***************************************************************************)
C8_ChildPassthrough ==
    /\ \A q \in StmtIds : Live(q) => Count(bufs[stmts[q].buf], "$") = 0
    /\ last.op \in EmbedOps
       => /\ Count(last.spliced, "$") = 0
          /\ last.childDialect = PostgreSQL => last.spliced = last.childText
          /\ EndsWith(bufs[stmts[last.q].buf], last.spliced \o last.suffix)

\* the child was a PostgreSQL statement with a rendered text and arguments
C8_Witness ==
    /\ last.op \in EmbedOps
    /\ last.childDialect = PostgreSQL
    /\ last.childCached
    /\ last.childArgs # <<>>
    /\ Count(last.spliced, "?") = Len(last.childArgs)

(***************************************************************************)
(* C9: an embedded child is put into the pool once, after its text was     *)
(* written into the parent; the parent's text and arguments are not        *)
(* changed by what happens to other statements, the reuse of the child's   *)
(* object and buffers included.                                            *)
(***************************************************************************)
C9_Released ==
    /\ \A i \in DOMAIN stmtPool, j \in DOMAIN stmtPool :
          i # j => stmtPool[i] # stmtPool[j]
    /\ \A q \in Range(stmtPool) : ~Live(q)
    /\ last.op \in EmbedOps
       => /\ last.child \in Range(stmtPool)
          /\ stmts[last.child].chunks = <<>> /\ stmts[last.child].args = <<>>
          /\ stmts[last.child].buf = NoBuf
          /\ last.spliced # <<>>
          /\ EndsWith(bufs[stmts[last.q].buf], last.spliced \o last.suffix)
          /\ \A b \in BufIds : bufState[b] # "owned" => bufs[b] = <<>>

C9_Frame ==
    \A q \in StmtIds :
        (Live(q) /\ stmtState'[q] = "live" /\ last'.q # q)
        => /\ stmts'[q].args = stmts[q].args
           /\ Render(stmts'[q].chunks, bufs'[stmts'[q].buf], stmts'[q].dialect)
                = String(q)

C10_FreshRender ==
    last.op = "String" => last.text = String(last.q)

(***************************************************************************)
(* Clone and the pool                                                      *)
(***************************************************************************)
\* what String() returns in this state: the rendered text kept, or a render
Returned(q) == IF stmts[q].sql # NoBuf THEN bufs[stmts[q].sql] ELSE String(q)

Buffers(q) == {stmts[q].buf, stmts[q].sql} \ {NoBuf}

C11_Disjoint ==
    \A q \in StmtIds, r \in StmtIds :
        (Live(q) /\ Live(r) /\ q # r) => Buffers(q) \cap Buffers(r) = {}

C11_Frame ==
    \A q \in StmtIds :
        (Live(q) /\ stmtState'[q] = "live" /\ last'.q # q)
        => /\ stmts'[q].args = stmts[q].args
           /\ stmts'[q].dest = stmts[q].dest
           /\ (IF stmts'[q].sql # NoBuf THEN bufs'[stmts'[q].sql]
               ELSE Render(stmts'[q].chunks, bufs'[stmts'[q].buf], stmts'[q].dialect))
                = Returned(q)

(***************************************************************************)
(* C11: a statement and its clone share no buffer, and no builder call,    *)
(* render or Close made on one of them changes what String(), Args() and   *)
(* Dest() of the other return.                                             *)
(***************************************************************************)
C11_CloneIndependent == [](C11_Disjoint) /\ [][C11_Frame]_vars

\* a clone of a rendered statement with scan targets got an expression of its
\* own while the original is in use
C11_Witness ==
    /\ last.op = "Expr"
    /\ calls[last.q][1].m = "Clone"
    /\ calls[last.q][1].dest # <<>>
    /\ \E q \in StmtIds : q # last.q /\ Live(q) /\ stmts[q].sql # NoBuf
                          /\ stmts[q].args # stmts[last.q].args

(***************************************************************************)
(* C12: right after q2 := q.Clone(), String(), Args() and Dest() of q2     *)
(* equal those of q.                                                       *)
(***************************************************************************)
C12_CloneEqual ==
    last.op = "Clone"
    => /\ Returned(last.q) = Returned(last.src)
       /\ String(last.q) = String(last.src)
       /\ stmts[last.q].args = stmts[last.src].args
       /\ stmts[last.q].dest = stmts[last.src].dest

\* the original has more chunks than a new Stmt has room for and a rendered text
C12_Witness ==
    /\ last.op = "Clone"
    /\ Len(stmts[last.src].chunks) > stmtChunksCap
    /\ stmts[last.src].sql # NoBuf
    /\ stmts[last.src].args # <<>>
    /\ stmts[last.q].chunks = stmts[last.src].chunks

(***************************************************************************)
(* C13: a Stmt in the pool has no chunks, arguments or scan targets, the   *)
(* slots of its argument and scan-target arrays are nil, it has no         *)
(* fragment buffer and no rendered text; the fragment buffer it had is in  *)
(* the buffer pool.                                                        *)
(***************************************************************************)
C13_ClosedIsClean ==
    /\ \A q \in Range(stmtPool) :
          /\ stmts[q].chunks = <<>> /\ stmts[q].args = <<>> /\ stmts[q].dest = <<>>
          /\ \A i \in DOMAIN stmts[q].argsBack : stmts[q].argsBack[i] = Nil
          /\ \A i \in DOMAIN stmts[q].destBack : stmts[q].destBack[i] = Nil
          /\ stmts[q].buf = NoBuf /\ stmts[q].sql = NoBuf
    /\ last.op = "Close"
       => /\ last.q \in Range(stmtPool)
          /\ bufState[last.buf] = "pooled" /\ bufs[last.buf] = <<>>

\* the statement closed had arguments and scan targets
C13_Witness ==
    /\ last.op = "Close"
    /\ Len(stmts[last.q].argsBack) > 0
    /\ Len(stmts[last.q].destBack) > 0

(***************************************************************************)
(* C14: String(), Args() and Dest() of a statement are what the calls made *)
(* on it since it was obtained give on a new Stmt object.                  *)
(***************************************************************************)
RECURSIVE DestOf(_)
DestOf(cs) == IF cs = <<>> THEN <<>> ELSE Head(cs).dest \o DestOf(Tail(cs))

C14_OwnCallsOnly ==
    last.op = "String"
    => LET q == last.q
           v == Build(calls[q])
       IN  /\ last.text = Render(v.chunks, v.text, stmts[q].dialect)
           /\ stmts[q].args = v.args
           /\ stmts[q].dest = DestOf(calls[q])

(***************************************************************************)
(* C15: after several Limit calls the text has one LIMIT ? and Args() has  *)
(* one argument for it, the value of the last Limit call.                  *)
(***************************************************************************)
C15_LastLimitWins ==
    (last.op = "String" /\ CallsOf(calls[last.q], "Limit") # <<>>)
    => LET ls == CallsOf(calls[last.q], "Limit")
       IN  /\ Count(last.text, "LIMIT ") = 1
           /\ SelectSeq(stmts[last.q].args, LAMBDA a : a \in LimitVals)
                = <<ls[Len(ls)].args[1]>>

(***************************************************************************)
(* INSERT statements                                                       *)
(***************************************************************************)
SetMethods == {"Set", "SetExpr"}

SetCalls(cs) == SelectSeq(cs, LAMBDA c : c.m \in SetMethods)

Column(c) == IF c.m = "Set" THEN c.expr ELSE c.field

Value(c) == IF c.m = "Set" THEN <<"?">> ELSE c.expr

RECURSIVE ArgsOf(_)
ArgsOf(cs) == IF cs = <<>> THEN <<>> ELSE Head(cs).args \o ArgsOf(Tail(cs))

RECURSIVE ClauseTexts(_)
ClauseTexts(cs) ==
    IF cs = <<>> THEN <<>> ELSE <<" ">> \o Head(cs).expr \o ClauseTexts(Tail(cs))

\* INSERT INTO t ( f1, ..., fn ) VALUES ( e1, ..., en ), then the custom clauses
InsertText(cs) ==
    LET sets == SetCalls(cs)
    IN  <<"INSERT INTO", " ">> \o cs[1].expr
        \o <<" ", "(", " ">>
        \o JoinExprs([k \in 1..Len(sets) |-> Column(sets[k])], <<", ">>)
        \o <<" ", ") VALUES (", " ">>
        \o JoinExprs([k \in 1..Len(sets) |-> Value(sets[k])], <<", ">>)
        \o <<" ", ")">>
        \o ClauseTexts(CallsOf(cs, "Clause"))

IsInsert(cs) ==
    /\ cs # <<>>
    /\ cs[1].m = "InsertInto"
    /\ OnlyCalls(Tail(cs), SetMethods \cup {"Clause"})
    /\ SetCalls(cs) # <<>>

PointerTo(column) == CASE column = "a" -> "&a" [] column = "b" -> "&b"

\* every To follows the Select that names its column, every Select has its To
Paired(cs) ==
    /\ \A i \in 1..Len(cs) :
          cs[i].m = "To" => /\ i > 1
                            /\ cs[i - 1].m = "Select"
                            /\ cs[i].dest = <<PointerTo(cs[i - 1].expr[1])>>
    /\ \A i \in 1..Len(cs) :
          cs[i].m = "Select" => (i < Len(cs) /\ cs[i + 1].m = "To")

\* the column expressions of a rendered text, left to right
ColumnsIn(text) == SelectSeq(text, LAMBDA t : t \in {"a", "b"})

(***************************************************************************)
(* C17: Dest() lists the pointers passed to To in call order; when every   *)
(* To follows the Select that defines its column, the k-th entry of Dest() *)
(* is the pointer for the k-th column of the rendered SELECT clause,       *)
(* whatever other clauses were added in between.                           *)
(***************************************************************************)
C17_DestInColumnOrder ==
    last.op = "String"
    => LET q == last.q
           cols == ColumnsIn(last.text)
       IN  /\ stmts[q].dest = DestOf(calls[q])
           /\ Paired(calls[q])
              => stmts[q].dest = [k \in 1..Len(cols) |-> PointerTo(cols[k])]

\* two columns with their targets and a WHERE clause added between them
C17_Witness ==
    /\ last.op = "String"
    /\ Paired(calls[last.q])
    /\ Len(calls[last.q]) = 5
    /\ calls[last.q][3].m = "Where"
    /\ stmts[last.q].dest = <<"&b", "&a">>

(***************************************************************************)
(* WITH                                                                    *)
(***************************************************************************)
\* name AS (child text), one item for each With call
WithItems(cs) ==
    LET ws == CallsOf(cs, "With")
    IN  [k \in 1..Len(ws) |-> ws[k].field \o ws[k].expr \o <<")">>]

WithText(cs) ==
    <<"WITH", " ">> \o JoinExprs(WithItems(cs), <<", ">>) \o <<" ">> \o Expected(cs)

HasWith(cs) ==
    /\ OnlyCalls(cs, {"From", "Where", "With"})
    /\ CallsOf(cs, "With") # <<>>

(***************************************************************************)
(* C18: the subqueries added by With render under one WITH keyword at the  *)
(* start of the statement, as name AS (child text) items joined by ", " in *)
(* call order, wherever the With calls stand among the other calls; the    *)
(* children's arguments come first in Args().                              *)
(***************************************************************************)
C18_SingleWith ==
    (last.op = "String" /\ HasWith(calls[last.q]))
    => LET cs == calls[last.q]
           text == WithText(cs)
       IN  /\ last.text = IF stmts[last.q].dialect = PostgreSQL
                          THEN writePg(1, text).out ELSE text
           /\ stmts[last.q].args = ArgsOf(CallsOf(cs, "With"))
                                     \o ArgsOf(CallsOf(cs, "From"))
                                     \o ArgsOf(CallsOf(cs, "Where"))

\* a WHERE clause was added between two With calls
C18_Witness ==
    /\ last.op = "String"
    /\ HasWith(calls[last.q])
    /\ LET cs == calls[last.q]
       IN  /\ Len(cs) = 4
           /\ cs[2].m = "With" /\ cs[3].m = "Where" /\ cs[4].m = "With"
           /\ cs[2].field # cs[4].field
           /\ cs[2].expr # cs[4].expr

(***************************************************************************)
(* UNION                                                                   *)
(***************************************************************************)
\* for each Union call, a space, the connector and the child's text
RECURSIVE UnionTexts(_)
UnionTexts(us) ==
    IF us = <<>> THEN <<>>
    ELSE <<" ">> \o Head(us).field \o Head(us).expr \o UnionTexts(Tail(us))

HasUnion(cs) ==
    /\ OnlyCalls(cs, {"From", "Where", "Union"})
    /\ CallsOf(cs, "Union") # <<>>

(***************************************************************************)
(* C19: each Union call adds a chunk of its own, UNION ALL or UNION        *)
(* followed by the child's text; the chunks of successive calls render in  *)
(* call order and the children's arguments stand in Args() in that order.  *)
(***************************************************************************)
C19_UnionInCallOrder ==
    (last.op = "String" /\ HasUnion(calls[last.q]))
    => LET cs == calls[last.q]
           us == CallsOf(cs, "Union")
           text == Expected(cs) \o UnionTexts(us)
       IN  /\ last.text = IF stmts[last.q].dialect = PostgreSQL
                          THEN writePg(1, text).out ELSE text
           /\ stmts[last.q].args = ArgsOf(CallsOf(cs, "From"))
                                     \o ArgsOf(CallsOf(cs, "Where")) \o ArgsOf(us)
           /\ Cardinality({i \in DOMAIN stmts[last.q].chunks :
                             stmts[last.q].chunks[i].pos >= posUnion}) = Len(us)

\* two Union calls with different connectors and children
C19_Witness ==
    /\ last.op = "String"
    /\ HasUnion(calls[last.q])
    /\ LET cs == calls[last.q]
       IN  /\ Len(cs) = 3
           /\ cs[2].m = "Union" /\ cs[3].m = "Union"
           /\ cs[2].field # cs[3].field
           /\ cs[2].expr # cs[3].expr

Connectors == {"UNION ", "UNION ALL "}

TailKeywords == {"ORDER BY", "LIMIT ", "OFFSET "}

\* a statement with a WHERE clause and with clauses of the tail of its own,
\* joined with children that have neither
UnionWithTail(cs) ==
    /\ OnlyCalls(cs, {"From", "Where", "OrderBy", "Offset", "Union"})
    /\ CallsOf(cs, "Union") # <<>>
    /\ \A i \in 1..Len(cs) :
          cs[i].m = "Union"
          => \A k \in 1..Len(cs[i].expr) : cs[i].expr[k] \notin TailKeywords \cup {"WHERE"}

(***************************************************************************)
(* C20: the text added by Union stands after the statement's WHERE text    *)
(* and before its ORDER BY, LIMIT and OFFSET text, whether those clauses   *)
(* were added before or after Union.                                       *)
(***************************************************************************)
C20_UnionBeforeOrderBy ==
    (last.op = "String" /\ UnionWithTail(calls[last.q]))
    => \A i \in 1..Len(last.text), j \in 1..Len(last.text) :
          last.text[i] \in Connectors
          => /\ last.text[j] = "WHERE" => j < i
             /\ last.text[j] \in TailKeywords => i < j

(***************************************************************************)
(* SpecClause: one SELECT statement with raw fragments added by Clause,    *)
(* the n-th of them named n, and WHERE and LIMIT clauses added at any      *)
(* moment.                                                                 *)
(***************************************************************************)
NthClause(n) == Call("Clause", <<"c", ToString(n)>>, <<>>)

Uncalled(q, m) == CallsOf(calls[q], m) = <<>>

ClauseNext ==
    \/ \E d \in Dialects, f \in FromFrags : NoneLive /\ Dialect_From(d, f)
    \/ \E q \in StmtIds :
          CallUpTo(q, NthClause(Len(CallsOf(calls[q], "Clause")) + 1), MaxClauseCalls)
    \/ \E q \in StmtIds, f \in ChildWhereFrags :
          Uncalled(q, "Where")
          /\ CallUpTo(q, Call("Where", f.expr, f.args), MaxClauseCalls)
    \/ \E q \in StmtIds, l \in LimitVals :
          Uncalled(q, "Limit")
          /\ CallUpTo(q, Call("Limit", <<>>, <<l>>), MaxClauseCalls)
    \/ \E q \in StmtIds : Stmt_String(q)

SpecClause == Init /\ [][ClauseNext]_vars

(***************************************************************************)
(* Raw fragments                                                           *)
(***************************************************************************)
\* the keywords of the clause methods that were called, in canonical order
CalledKeywords(cs) ==
    LET ms == SelectSeq(ClauseOrder, LAMBDA m : CallsOf(cs, m) # <<>>)
    IN  [k \in 1..Len(ms) |-> Keyword(ms[k])]

\* the names of the raw fragments of a text, left to right
FragmentNames(text) ==
    LET idx == SelectSeq([i \in 1..Len(text) |-> i],
                         LAMBDA i : i > 1 /\ text[i - 1] = "c")
    IN  [k \in 1..Len(idx) |-> text[idx[k]]]

(***************************************************************************)
(* C21: raw fragments added by Clause render in call order, and the        *)
(* clauses added by the clause methods, before or after them, render with  *)
(* their keywords in canonical order.                                      *)
(***************************************************************************)
C21_ClauseKeepsOrder ==
    (last.op = "String"
        /\ OnlyCalls(calls[last.q], Range(ClauseOrder) \cup {"Clause"}))
    => LET cs == calls[last.q]
           n == Len(CallsOf(cs, "Clause"))
       IN  /\ KeywordsIn(last.text) = CalledKeywords(cs)
           /\ FragmentNames(last.text) = [k \in 1..n |-> ToString(k)]

(***************************************************************************)
(* SpecPage: statements with a WHERE clause and pages chosen by Paginate.  *)
(***************************************************************************)
Pages == {-1, 0, 1, 2, 5}
PageSizes == {-1, 0, 1, 10}

PageNext ==
    \/ \E d \in Dialects, f \in FromFrags : NoneLive /\ Dialect_From(d, f)
    \/ \E q \in StmtIds, f \in ChildWhereFrags :
          CallUpTo(q, Call("Where", f.expr, f.args), MaxCalls)
    \/ \E q \in StmtIds, page \in Pages, pageSize \in PageSizes :
          CallUpTo(q, Call("Paginate", <<>>, <<page, pageSize>>), MaxCalls)
    \/ \E q \in StmtIds : Stmt_String(q)

SpecPage == Init /\ [][PageNext]_vars

AtLeastOne(n) == IF n < 1 THEN 1 ELSE n

PagedOnce(cs) ==
    /\ OnlyCalls(cs, {"From", "Where", "Paginate"})
    /\ Len(CallsOf(cs, "Paginate")) = 1

MaxInCalls == 4

InArgs == {<<>>, <<"i1">>, <<"i1", "i2">>, <<"i1", "i2", "i3">>}

InNext ==
    \/ \E d \in Dialects, f \in FromFrags : NoneLive /\ Dialect_From(d, f)
    \/ \E q \in StmtIds, f \in ChildWhereFrags :
          CallUpTo(q, Call("Where", f.expr, f.args), MaxInCalls)
    \/ \E q \in StmtIds, as \in InArgs :
          CallUpTo(q, Call("In", <<>>, as), MaxInCalls)
    \/ \E q \in StmtIds, f \in OrderByFrags :
          CallUpTo(q, Call("OrderBy", f.expr, f.args), MaxInCalls)
    \/ \E q \in StmtIds, l \in LimitVals :
          Uncalled(q, "Limit") /\ CallUpTo(q, Call("Limit", <<>>, <<l>>), MaxInCalls)
    \/ \E q \in StmtIds : Stmt_String(q)

SpecIn == Init /\ [][InNext]_vars

\* n placeholders with commas between them, in parentheses after IN
RECURSIVE Placeholders(_)
Placeholders(n) ==
    IF n = 0 THEN <<>>
    ELSE IF n = 1 THEN <<"?">>
    ELSE <<"?", ",">> \o Placeholders(n - 1)

InList(n) == <<"IN (">> \o Placeholders(n) \o <<")">>

\* the WHERE clause of the calls ws (Where and In calls, in call order)
RECURSIVE WhereInText(_, _)
WhereInText(ws, acc) ==
    IF ws = <<>> THEN acc
    ELSE LET c == Head(ws)
             item == IF c.m = "In" THEN InList(Len(c.args)) ELSE c.expr
             sep == IF acc = <<>> THEN <<"WHERE", " ">>
                    ELSE IF c.m = "In" THEN <<" ">> ELSE <<" AND ">>
         IN  WhereInText(Tail(ws), acc \o sep \o item)

\* the pieces that are not empty, with one space between them
RECURSIVE Spaced(_)
Spaced(ps) ==
    IF ps = <<>> THEN <<>>
    ELSE IF Head(ps) = <<>> THEN Spaced(Tail(ps))
    ELSE IF Spaced(Tail(ps)) = <<>> THEN Head(ps)
    ELSE Head(ps) \o <<" ">> \o Spaced(Tail(ps))

\* every In call comes after a Where call
InAfterWhere(cs) ==
    \A i \in 1..Len(cs) : cs[i].m = "In" => \E j \in 1..(i - 1) : cs[j].m = "Where"

InCase(cs) ==
    /\ OnlyCalls(cs, {"From", "Where", "In", "OrderBy", "Limit"})
    /\ CallsOf(cs, "In") # <<>>
    /\ InAfterWhere(cs)

(***************************************************************************)
(* C23: after a Where, In(a1, ..., an) appends IN (?,...,?) with n         *)
(* placeholders to the WHERE clause, after one space and not after " AND ",*)
(* and a1..an stand in Args() right after the arguments the WHERE clause   *)
(* had before.                                                             *)
(***************************************************************************)
C23_InAppendsToWhere ==
    (last.op = "String" /\ InCase(calls[last.q]))
    => LET cs == calls[last.q]
           ws == SelectSeq(cs, LAMBDA c : c.m \in {"Where", "In"})
           rest == SelectSeq(cs, LAMBDA c : c.m \in {"OrderBy", "Limit"})
           text == Spaced(<<Expected(CallsOf(cs, "From")), WhereInText(ws, <<>>),
                            Expected(rest)>>)
       IN  /\ last.text = IF stmts[last.q].dialect = PostgreSQL
                          THEN writePg(1, text).out ELSE text
           /\ stmts[last.q].args
                = ArgsOf(CallsOf(cs, "From")) \o ArgsOf(ws) \o ArgsOf(rest)

\* Where, Limit and then In with three arguments, under PostgreSQL
C23_Witness ==
    /\ last.op = "String"
    /\ stmts[last.q].dialect = PostgreSQL
    /\ LET cs == calls[last.q]
       IN  /\ Len(cs) = 4
           /\ cs[2].m = "Where" /\ cs[3].m = "Limit" /\ cs[4].m = "In"
           /\ Len(cs[4].args) = 3
    /\ last.text = <<"FROM", " ", "f", "$", "1", " ", "WHERE", " ", "w", "$", "2",
                     " ", "IN (", "$", "3", ",", "$", "4", ",", "$", "5", ")",
                     " ", "LIMIT ", "$", "6">>
    /\ stmts[last.q].args = <<"f", "w", "i1", "i2", "i3", "L1">>

(***************************************************************************)
(* SpecJoin: statements whose FROM clause is extended by the join methods, *)
(* with SELECT, WHERE and further FROM expressions added in between.       *)
(***************************************************************************)
MaxJoinCalls == 4

JoinMethods == {"Join", "LeftJoin", "RightJoin", "FullJoin"}
JoinTables == {<<"u">>, <<"v">>}
JoinConditions == {<<"c">>}
JoinSelectFrags == {P("s")}

JoinCall(m, table, on) == [Call(m, table, <<>>) EXCEPT !.field = on]

JoinNext ==
    \/ \E d \in Dialects, f \in FromFrags : NoneLive /\ Dialect_From(d, f)
    \/ \E q \in StmtIds, m \in JoinMethods, table \in JoinTables, on \in JoinConditions :
          CallUpTo(q, JoinCall(m, table, on), MaxJoinCalls)
    \/ \E q \in StmtIds, f \in JoinSelectFrags :
          CallUpTo(q, Call("Select", f.expr, f.args), MaxJoinCalls)
    \/ \E q \in StmtIds, f \in ChildWhereFrags :
          CallUpTo(q, Call("Where", f.expr, f.args), MaxJoinCalls)
    \/ \E q \in StmtIds, f \in FromFrags :
          CallUpTo(q, Call("From", f.expr, f.args), MaxJoinCalls)
    \/ \E q \in StmtIds : Stmt_String(q)

SpecJoin == Init /\ [][JoinNext]_vars

JoinWords(m) ==
    CASE m = "Join" -> <<"JOIN ">>
      [] m = "LeftJoin" -> <<"LEFT JOIN ">>
      [] m = "RightJoin" -> <<"RIGHT JOIN ">>
      [] m = "FullJoin" -> <<"FULL JOIN ">>

\* the FROM clause of the calls fs (From and join calls, in call order)
RECURSIVE FromJoinText(_, _)
FromJoinText(fs, acc) ==
    IF fs = <<>> THEN acc
    ELSE LET c == Head(fs)
             item == IF c.m = "From" THEN c.expr
                     ELSE JoinWords(c.m) \o c.expr \o <<" ON (">> \o c.field \o <<")">>
             sep == IF acc = <<>> THEN <<"FROM", " ">>
                    ELSE IF c.m = "From" THEN <<", ">> ELSE <<" ">>
         IN  FromJoinText(Tail(fs), acc \o sep \o item)

JoinCase(cs) ==
    /\ OnlyCalls(cs, JoinMethods \cup {"From", "Select", "Where"})
    /\ \E i \in 1..Len(cs) : cs[i].m \in JoinMethods
    /\ cs[1].m = "From"

(***************************************************************************)
(* C24: after From, each Join, LeftJoin, RightJoin or FullJoin(table, on)  *)
(* appends JOIN table ON (on), with LEFT, RIGHT or FULL in front, to the   *)
(* FROM clause after one space and not after a comma, in call order,       *)
(* whatever clauses are added in between.                                  *)
(***************************************************************************)
C24_JoinAppendsToFrom ==
    (last.op = "String" /\ JoinCase(calls[last.q]))
    => LET cs == calls[last.q]
           fs == SelectSeq(cs, LAMBDA c : c.m \in JoinMethods \cup {"From"})
           text == Spaced(<<Expected(CallsOf(cs, "Select")), FromJoinText(fs, <<>>),
                            Expected(CallsOf(cs, "Where"))>>)
       IN  /\ last.text = IF stmts[last.q].dialect = PostgreSQL
                          THEN writePg(1, text).out ELSE text
           /\ stmts[last.q].args
                = ArgsOf(CallsOf(cs, "Select")) \o ArgsOf(fs)
                  \o ArgsOf(CallsOf(cs, "Where"))

\* From, LeftJoin, Where and then FullJoin
C24_Witness ==
    /\ last.op = "String"
    /\ LET cs == calls[last.q]
       IN  /\ Len(cs) = 4
           /\ cs[2].m = "LeftJoin" /\ cs[3].m = "Where" /\ cs[4].m = "FullJoin"
    /\ last.text = <<"FROM", " ", "f", "?", " ", "LEFT JOIN ", "u", " ON (", "c", ")",
                     " ", "FULL JOIN ", "v", " ON (", "c", ")",
                     " ", "WHERE", " ", "w", "?">>

(***************************************************************************)
(* SpecUnopened: statements created by Select, on which In and the joins   *)
(* may be called before Where and From are.                                *)
(***************************************************************************)
UnopenedNext ==
    \/ \E d \in Dialects, f \in JoinSelectFrags : NoneLive /\ Dialect_Select(d, f)
    \/ \E q \in StmtIds, as \in InArgs :
          CallUpTo(q, Call("In", <<>>, as), MaxInCalls)
    \/ \E q \in StmtIds, m \in JoinMethods, table \in JoinTables, on \in JoinConditions :
          CallUpTo(q, JoinCall(m, table, on), MaxInCalls)
    \/ \E q \in StmtIds, f \in ChildWhereFrags :
          CallUpTo(q, Call("Where", f.expr, f.args), MaxInCalls)
    \/ \E q \in StmtIds, f \in FromFrags :
          CallUpTo(q, Call("From", f.expr, f.args), MaxInCalls)
    \/ \E q \in StmtIds : Stmt_String(q)

SpecUnopened == Init /\ [][UnopenedNext]_vars

\* the keyword stands in the text once, in front of every token of toks
OnceInFront(text, keyword, toks) ==
    /\ Count(text, keyword) = 1
    /\ \A i, k \in 1..Len(text) :
          (text[k] = keyword /\ text[i] \in toks) => k < i

JoinTokens == {JoinWords(m)[1] : m \in JoinMethods}

(***************************************************************************)
(* C25: In without a prior Where and Join without a prior From create the  *)
(* clause: the expression and its arguments stand at the clause's place,   *)
(* and once Where (From) has been called too, the clause has its keyword   *)
(* exactly once, in front of all its expressions.                          *)
(***************************************************************************)
C25_UnopenedClauseGetsKeyword ==
    (last.op = "String"
     /\ OnlyCalls(calls[last.q], JoinMethods \cup {"Select", "In", "Where", "From"}))
    => LET cs == calls[last.q]
       IN  /\ CallsOf(cs, "Where") # <<>>
                => OnceInFront(last.text, "WHERE", {"IN (", "w"})
           /\ CallsOf(cs, "From") # <<>>
                => OnceInFront(last.text, "FROM", JoinTokens \cup {"f"})

(***************************************************************************)
(* SpecDialect: statements created from an explicit dialect and by the     *)
(* package-level From, with SetDialect called at any moment.               *)
(***************************************************************************)
\* a variant of the store that leaves the default as it is
StoreNothing(old, new) == old

\* defaultDialectPointer.Store(newDefaultDialect)
Store(old, new) == new

SetDialect(newDefaultDialect) ==
    /\ defaultDialect' = Store(defaultDialect, newDefaultDialect)
    /\ lastSet' = newDefaultDialect
    /\ last' = [NoOp EXCEPT !.op = "SetDialect"]
    /\ UNCHANGED <<stmts, stmtState, stmtPool, bufs, bufState, calls, gets, origin,
                   cacheOnce, cacheLock, cache, maps, thr, stored, ops, exec>>

\* the package-level From: defaultDialect.From(expr, args...)
sqlf_From(f) == Construct(defaultDialect, Call("sqlf.From", f.expr, f.args))

DialectNext ==
    \/ \E d \in Dialects : last.op # "SetDialect" /\ SetDialect(d)
    \/ \E f \in FromFrags : sqlf_From(f)
    \/ \E d \in Dialects, f \in FromFrags : Dialect_From(d, f)
    \/ \E q \in StmtIds, f \in ChildWhereFrags :
          CallUpTo(q, Call("Where", f.expr, f.args), MaxCalls)
    \/ \E q \in StmtIds : Stmt_String(q)
    \/ \E q \in StmtIds : Close(q)

SpecDialect == Init /\ [][DialectNext]_vars

(***************************************************************************)
(* C26: a statement keeps the dialect it was created with.  SetDialect     *)
(* changes the dialect of the statements the package-level constructors    *)
(* create afterwards, never a statement that exists, and a statement       *)
(* created from an explicit dialect has that dialect whatever the default. *)
(***************************************************************************)
C26_KeepsDialect ==
    /\ \A q \in StmtIds : Live(q) => stmts[q].dialect = origin[q]
    /\ last.op = "sqlf.From" => stmts[last.q].dialect = lastSet
    /\ last.op = "String"
          => last.text = Render(stmts[last.q].chunks, bufs[stmts[last.q].buf],
                                origin[last.q])

\* a statement created under the default PostgreSQL renders with $1 after the
\* default was set back to NoDialect, next to one created from NoDialect
C26_Witness ==
    /\ last.op = "String"
    /\ calls[last.q][1].m = "sqlf.From"
    /\ last.text = <<"FROM", " ", "f", "$", "1">>
    /\ defaultDialect = NoDialect
    /\ \E q \in StmtIds : Live(q) /\ calls[q][1].m = "From"
                          /\ stmts[q].dialect = NoDialect

(***************************************************************************)
(* The statement cache of a Dialect: getCache, getCachedSQL, putCachedSQL  *)
(* and ClearCache, one action for each step of a goroutine that reads or   *)
(* writes shared memory or takes or releases cacheLock.                    *)
(***************************************************************************)
MaxCacheCalls == 4
MaxRaceCalls == 3

CacheBufs == {1, 2}
CacheKeys == {<<"k">>, <<"j">>}
CacheValues == {"v1", "v2"}

stmtVars == <<stmts, stmtState, stmtPool, bufState, calls, last, gets,
              defaultDialect, lastSet, origin, exec>>

\* a variant of the key that shares the bytes of the buffer
bufToStringKey(bytes, b) == [bytes |-> <<>>, ref |-> b]

\* key := string(buf.B): a copy of the bytes
stringKey(bytes, b) == [bytes |-> bytes, ref |-> 0]

\* the bytes of a key as they are now
KeyBytes(key, bs) == IF key.ref # 0 THEN bs[key.ref] ELSE key.bytes

\* make(sqlCache): a map nothing refers to
Referred == {cache[d] : d \in Dialects} \cup {thr[t].c : t \in Threads}

make == Min({m \in MapIds : m \notin Referred})

InUse(b) == \E t \in Threads : thr[t].pc # "idle" /\ thr[t].buf = b

\* the caller writes to a buffer or resets it
WriteString(b, str) ==
    /\ ~InUse(b)
    /\ bufs[b] = <<>>
    /\ bufs' = [bufs EXCEPT ![b] = @ \o str]
    /\ UNCHANGED <<stmtVars, cacheOnce, cacheLock, cache, maps, thr, stored, ops>>

Reset(b) ==
    /\ ~InUse(b)
    /\ bufs[b] # <<>>
    /\ bufs' = [bufs EXCEPT ![b] = <<>>]
    /\ UNCHANGED <<stmtVars, cacheOnce, cacheLock, cache, maps, thr, stored, ops>>

\* a goroutine calls one of the three methods
Invoke(t, op, d, b, sql, n) ==
    /\ thr[t].pc = "idle"
    /\ ops < n
    /\ ops' = ops + 1
    /\ thr' = [thr EXCEPT ![t] =
                  [IdleThread EXCEPT !.pc = IF op = "ClearCache" THEN "lock" ELSE "once",
                                     !.op = op, !.d = d, !.buf = b,
                                     !.arg = IF b = 0 THEN <<>> ELSE bufs[b],
                                     !.sql = sql,
                                     !.key = IF op = "putCachedSQL"
                                             THEN stringKey(bufs[b], b) ELSE @]]
    /\ UNCHANGED <<stmtVars, bufs, cacheOnce, cacheLock, cache, maps, stored>>

Call_getCachedSQL(t, d, b, n) == Invoke(t, "getCachedSQL", d, b, "", n)
Call_putCachedSQL(t, d, b, sql, n) == Invoke(t, "putCachedSQL", d, b, sql, n)
Call_ClearCache(t, d, n) == Invoke(t, "ClearCache", d, 0, "", n)

\* getCache: d.cacheOnce.Do(func() { d.cache = make(sqlCache) })
getCache_Once(t) ==
    /\ thr[t].pc = "once"
    /\ IF cacheOnce[thr[t].d]
       THEN UNCHANGED <<cacheOnce, cache, maps>>
       ELSE /\ cacheOnce' = [cacheOnce EXCEPT ![thr[t].d] = TRUE]
            /\ cache' = [cache EXCEPT ![thr[t].d] = make]
            /\ maps' = [maps EXCEPT ![make] = {}]
    /\ thr' = [thr EXCEPT ![t].pc = "read"]
    /\ UNCHANGED <<stmtVars, bufs, cacheLock, stored, ops>>

\* getCache: return d.cache
getCache_Return(t) ==
    /\ thr[t].pc = "read"
    /\ thr' = [thr EXCEPT ![t].c = cache[thr[t].d],
                          ![t].pc = IF thr[t].op = "getCachedSQL" THEN "rlock" ELSE "lock"]
    /\ UNCHANGED <<stmtVars, bufs, cacheOnce, cacheLock, cache, maps, stored, ops>>

\* d.cacheLock.RLock()
RLock(t) ==
    /\ thr[t].pc = "rlock"
    /\ cacheLock[thr[t].d].writer = 0
    /\ cacheLock' = [cacheLock EXCEPT ![thr[t].d].readers = @ \cup {t}]
    /\ thr' = [thr EXCEPT ![t].pc = "lookup"]
    /\ UNCHANGED <<stmtVars, bufs, cacheOnce, cache, maps, stored, ops>>

\* res, ok := c[s], where s is the bytes of the buffer
Lookup(t) ==
    /\ thr[t].pc = "lookup"
    /\ LET hits == {e \in maps[thr[t].c] : KeyBytes(e.key, bufs) = bufs[thr[t].buf]}
       IN  \/ /\ hits = {}
              /\ thr' = [thr EXCEPT ![t].pc = "runlock", ![t].res = "", ![t].ok = FALSE]
           \/ \E e \in hits :
                 thr' = [thr EXCEPT ![t].pc = "runlock", ![t].res = e.val, ![t].ok = TRUE]
    /\ UNCHANGED <<stmtVars, bufs, cacheOnce, cacheLock, cache, maps, stored, ops>>

\* d.cacheLock.RUnlock()
RUnlock(t) ==
    /\ thr[t].pc = "runlock"
    /\ cacheLock' = [cacheLock EXCEPT ![thr[t].d].readers = @ \ {t}]
    /\ thr' = [thr EXCEPT ![t].pc = "ret"]
    /\ UNCHANGED <<stmtVars, bufs, cacheOnce, cache, maps, stored, ops>>

\* d.cacheLock.Lock()
Lock(t) ==
    /\ thr[t].pc = "lock"
    /\ cacheLock[thr[t].d].writer = 0
    /\ cacheLock[thr[t].d].readers = {}
    /\ cacheLock' = [cacheLock EXCEPT ![thr[t].d].writer = t]
    /\ thr' = [thr EXCEPT ![t].pc = IF thr[t].op = "ClearCache" THEN "store" ELSE "write"]
    /\ UNCHANGED <<stmtVars, bufs, cacheOnce, cache, maps, stored, ops>>

\* c[key] = sql
MapWrite(t) ==
    /\ thr[t].pc = "write"
    /\ maps' = [maps EXCEPT ![thr[t].c] =
                   {e \in @ : KeyBytes(e.key, bufs) # KeyBytes(thr[t].key, bufs)}
                   \cup {[key |-> thr[t].key, val |-> thr[t].sql]}]
    /\ thr' = [thr EXCEPT ![t].pc = "unlock"]
    /\ UNCHANGED <<stmtVars, bufs, cacheOnce, cacheLock, cache, stored, ops>>

\* d.cache = make(sqlCache)
CacheStore(t) ==
    /\ thr[t].pc = "store"
    /\ cache' = [cache EXCEPT ![thr[t].d] = make]
    /\ maps' = [maps EXCEPT ![make] = {}]
    /\ thr' = [thr EXCEPT ![t].pc = "unlock"]
    /\ UNCHANGED <<stmtVars, bufs, cacheOnce, cacheLock, stored, ops>>

\* d.cacheLock.Unlock()
Unlock(t) ==
    /\ thr[t].pc = "unlock"
    /\ cacheLock' = [cacheLock EXCEPT ![thr[t].d].writer = 0]
    /\ thr' = [thr EXCEPT ![t].pc = "ret"]
    /\ UNCHANGED <<stmtVars, bufs, cacheOnce, cache, maps, stored, ops>>

\* the method returns
Return(t) ==
    /\ thr[t].pc = "ret"
    /\ thr' = [thr EXCEPT ![t].pc = "idle", ![t].c = NoMap]
    /\ stored' = CASE thr[t].op = "putCachedSQL" ->
                        [stored EXCEPT ![thr[t].d] =
                            {e \in @ : e.key # thr[t].arg}
                            \cup {[key |-> thr[t].arg, val |-> thr[t].sql]}]
                   [] thr[t].op = "ClearCache" -> [stored EXCEPT ![thr[t].d] = {}]
                   [] OTHER -> stored
    /\ UNCHANGED <<stmtVars, bufs, cacheOnce, cacheLock, cache, maps, ops>>

CacheNext(ts, bs, n) ==
    \/ \E b \in bs, str \in CacheKeys : WriteString(b, str)
    \/ \E b \in bs : Reset(b)
    \/ \E t \in ts, d \in Dialects, b \in bs : Call_getCachedSQL(t, d, b, n)
    \/ \E t \in ts, d \in Dialects, b \in bs, sql \in CacheValues :
          Call_putCachedSQL(t, d, b, sql, n)
    \/ \E t \in ts, d \in Dialects : Call_ClearCache(t, d, n)
    \/ \E t \in ts : getCache_Once(t)
    \/ \E t \in ts : getCache_Return(t)
    \/ \E t \in ts : RLock(t)
    \/ \E t \in ts : Lookup(t)
    \/ \E t \in ts : RUnlock(t)
    \/ \E t \in ts : Lock(t)
    \/ \E t \in ts : MapWrite(t)
    \/ \E t \in ts : CacheStore(t)
    \/ \E t \in ts : Unlock(t)
    \/ \E t \in ts : Return(t)

\* SpecCache: one goroutine, so that each call ends before the next begins
SpecCache == Init /\ [][CacheNext({1}, CacheBufs, MaxCacheCalls)]_vars

\* SpecCacheRace: the goroutines call the methods concurrently
SpecCacheRace == Init /\ [][CacheNext(Threads, {1}, MaxRaceCalls)]_vars

(***************************************************************************)
(* C27: for one Dialect, getCachedSQL(buf) returns (v, true) exactly when  *)
(* the most recent putCachedSQL with the same bytes since the last         *)
(* ClearCache stored v, and a miss otherwise; the key is a copy of the     *)
(* bytes, so what happens to the buffer afterwards does not matter; the    *)
(* caches of different Dialects are independent.                           *)
(***************************************************************************)
C27_CacheLookup ==
    \A t \in Threads :
        (thr[t].pc = "ret" /\ thr[t].op = "getCachedSQL")
        => LET hits == {e \in stored[thr[t].d] : e.key = thr[t].arg}
           IN  IF hits = {}
               THEN ~thr[t].ok
               ELSE thr[t].ok /\ \E e \in hits : thr[t].res = e.val

\* a hit for v2 under PostgreSQL with a buffer other than the one put, which
\* now holds other bytes, while NoDialect has v1 for the same bytes
C27_Witness ==
    \E t \in Threads :
        /\ thr[t].pc = "ret" /\ thr[t].op = "getCachedSQL"
        /\ thr[t].d = PostgreSQL
        /\ thr[t].ok /\ thr[t].res = "v2"
        /\ [key |-> thr[t].arg, val |-> "v1"] \in stored[NoDialect]
        /\ \E b \in CacheBufs : b # thr[t].buf /\ bufs[b] \in CacheKeys \ {thr[t].arg}

\* the memory a goroutine's next step reads and writes: the cache field of a
\* Dialect or a map
Field(d) == [field |-> d]
Map(m) == [map |-> m]

\* the write inside cacheOnce.Do: sync.Once orders the calls of Do
OnceWrites(t) ==
    IF thr[t].pc = "once" /\ ~cacheOnce[thr[t].d] THEN {Field(thr[t].d)} ELSE {}

Writes(t) ==
    CASE thr[t].pc = "store" -> {Field(thr[t].d)}
      [] thr[t].pc = "write" -> {Map(thr[t].c)}
      [] OTHER -> {}

Reads(t) ==
    CASE thr[t].pc = "read" -> {Field(thr[t].d)}
      [] thr[t].pc = "lookup" -> {Map(thr[t].c)}
      [] OTHER -> {}

(***************************************************************************)
(* C28: with getCachedSQL, putCachedSQL and ClearCache running             *)
(* concurrently on one Dialect, no goroutine reads the cache field or the  *)
(* map while another goroutine writes it: inserts, lookups and ClearCache  *)
(* exclude each other, the read of the cache field included.               *)
(***************************************************************************)
C28_NoConcurrentReadAndWrite ==
    \A t, u \in Threads :
        t # u => /\ Writes(t) \cap (Reads(u) \cup Writes(u) \cup OnceWrites(u)) = {}
                 /\ OnceWrites(t) \cap Reads(u) = {}

(***************************************************************************)
(* Execution: Query, QueryRow and Exec with their AndClose forms.  The     *)
(* executor (db) and the handler are the caller's; what they return is     *)
(* chosen freely.                                                          *)
(***************************************************************************)
MaxRows == 2

ExecMethods == {"Query", "QueryRow", "Exec"}
Results == {"r1"}

execVars == <<stmtState, stmtPool, calls, gets, libVars, origin>>

\* a variant of the AndClose methods that releases the statement first
bodyCloseFirst(m) == <<"Close", m, "return">>

\* err := q.Query(ctx, db, handler); q.Close(); return err
body(m) == <<m, "Close", "return">>

Running == exec.step > 0 /\ exec.step <= Len(body(exec.m))

Resting == exec.m = "none"

Step == body(exec.m)[exec.step]

\* QueryAndClose, QueryRowAndClose or ExecAndClose is called on q
AndClose(q, m) ==
    /\ Resting
    /\ Live(q)
    /\ exec' = [NoExec EXCEPT !.m = m, !.q = q, !.step = 1, !.at = "call"]
    /\ UNCHANGED <<stmts, bufs, bufState, last, execVars>>

\* Query, QueryRow, Exec: q.String() and q.args are passed to the executor
CallExecutor ==
    /\ Running /\ Step \in ExecMethods /\ exec.at = "call"
    /\ DoString(exec.q)
    /\ exec' = [exec EXCEPT !.at = "db"]

Finish(res, err) ==
    exec' = [exec EXCEPT !.at = "none", !.res = res, !.err = err, !.finished = TRUE,
                         !.step = @ + 1]

\* the executor returns: rows or an error (Query), a row whose Scan gives the
\* error (QueryRow), a result and an error (Exec)
ExecutorReturns ==
    /\ Running /\ exec.at = "db"
    /\ CASE exec.m = "Query" ->
               \/ Finish(NoResult, "errQuery")
               \/ \E n \in 0..MaxRows : exec' = [exec EXCEPT !.at = "rows", !.rows = n]
         [] exec.m = "QueryRow" ->
               \E err \in {NoError, "errScan"} : Finish(NoResult, err)
         [] exec.m = "Exec" ->
               \E res \in Results, err \in {NoError, "errExec"} : Finish(res, err)
    /\ UNCHANGED <<stmts, bufs, bufState, last, execVars>>

\* for rows.Next(): rows.Scan(q.dest...) if there are targets, then the handler
NextRow ==
    /\ Running /\ exec.at = "rows"
    /\ IF exec.rows = 0
       THEN exec' = [exec EXCEPT !.at = "rowsClose"]
       ELSE \/ exec' = [exec EXCEPT !.rows = @ - 1]
            \/ /\ Len(stmts[exec.q].dest) > 0
               /\ exec' = [exec EXCEPT !.at = "rowsClose", !.scanErr = "errScan"]
    /\ UNCHANGED <<stmts, bufs, bufState, last, execVars>>

\* rows.Close(), then the error of the Scan, then rows.Err()
RowsClose ==
    /\ Running /\ exec.at = "rowsClose"
    /\ \E closeErr \in {NoError, "errClose"}, rowsErr \in {NoError, "errRows"} :
          Finish(NoResult, IF closeErr # NoError THEN closeErr
                           ELSE IF exec.scanErr # NoError THEN exec.scanErr
                           ELSE rowsErr)
    /\ UNCHANGED <<stmts, bufs, bufState, last, execVars>>

\* q.Close()
AndClose_Close ==
    /\ Running /\ Step = "Close"
    /\ DoClose(exec.q)
    /\ exec' = [exec EXCEPT !.step = @ + 1, !.closes = @ + 1,
                            !.early = @ \/ ~exec.finished]

\* return err (return res, err)
AndClose_Return ==
    /\ Running /\ Step = "return"
    /\ exec' = [exec EXCEPT !.step = @ + 1,
                            !.ret = IF exec.m = "Exec" THEN <<exec.res, exec.err>>
                                    ELSE <<exec.err>>]
    /\ UNCHANGED <<stmts, bufs, bufState, last, execVars>>

Returned_AndClose == exec.m # "none" /\ exec.step > Len(body(exec.m))

\* the caller goes on after the method has returned
AfterReturn ==
    /\ Returned_AndClose
    /\ exec' = NoExec
    /\ UNCHANGED <<stmts, bufs, bufState, last, execVars>>

ExecNext ==
    \/ \E d \in Dialects, f \in ColumnFrags :
          Resting /\ NoneLive /\ Dialect_Select(d, f)
    \/ \E q \in StmtIds, f \in ChildWhereFrags :
          Resting /\ CallUpTo(q, Call("Where", f.expr, f.args), MaxCalls)
    \/ \E q \in StmtIds, d \in Pointers : Resting /\ Stmt_To(q, <<d>>, MaxCalls)
    \/ \E q \in StmtIds : Resting /\ Stmt_String(q)
    \/ \E q \in StmtIds, m \in ExecMethods : AndClose(q, m)
    \/ CallExecutor
    \/ ExecutorReturns
    \/ NextRow
    \/ RowsClose
    \/ AndClose_Close
    \/ AndClose_Return
    \/ AfterReturn

SpecExec == Init /\ [][ExecNext]_vars

(***************************************************************************)
(* C29: QueryAndClose, QueryRowAndClose and ExecAndClose release the       *)
(* statement exactly once, and only after the executor call (for Query     *)
(* the row iteration too) has finished, with an error or without; they     *)
(* return the result and the error of the execution as they are.           *)
(***************************************************************************)
C29_ClosedOnceAfterExecution ==
    /\ exec.closes > 0 => exec.finished /\ ~exec.early
    /\ (exec.m # "none" /\ ~exec.finished) => Live(exec.q)
    /\ Returned_AndClose
          => /\ exec.closes = 1
             /\ stmtState[exec.q] = "pooled"
             /\ Count(stmtPool, exec.q) = 1
             /\ exec.ret = IF exec.m = "Exec" THEN <<exec.res, exec.err>>
                           ELSE <<exec.err>>

\* QueryAndClose has returned the error of a Scan that ended the row iteration
C29_Witness ==
    /\ Returned_AndClose
    /\ exec.m = "Query"
    /\ exec.ret = <<"errScan">>
    /\ exec.closes = 1
    /\ stmtState[exec.q] = "pooled"

(***************************************************************************)
(* SpecChunks: SELECT and INSERT statements built by all kinds of builder  *)
(* calls, children embedded by SubQuery, With and Union included.          *)
(***************************************************************************)
MaxChunkCalls == 4

ChunkCalls ==
    {Call("Where", f.expr, f.args) : f \in ChildWhereFrags}
    \cup {Call("Clause", f.expr, f.args) : f \in ClauseFrags}
    \cup {Call("Expr", f.expr, f.args) : f \in ExprFrags}
    \cup {Call("In", <<>>, <<"i1">>)}
    \cup {JoinCall("LeftJoin", <<"u">>, <<"c">>)}
    \cup {Call("Set", <<k>>, <<k>>) : k \in Fields}

\* q is the only statement in use
Alone(q) == \A p \in StmtIds : Live(p) => p = q

ChunksNext ==
    \/ \E d \in PoolDialects, f \in FromFrags : Dialect_From(d, f)
    \/ \E d \in PoolDialects, t \in Tables : NoneLive /\ Dialect_InsertInto(d, t)
    \/ \E q \in StmtIds, c \in ChunkCalls : Alone(q) /\ CallUpTo(q, c, MaxChunkCalls)
    \/ \E p \in StmtIds, c \in StmtIds, prefix \in Prefixes, suffix \in Suffixes :
          SubQuery(p, c, prefix, suffix)
    \/ \E p \in StmtIds, c \in StmtIds, n \in QueryNames : With(p, c, n)
    \/ \E p \in StmtIds, c \in StmtIds : Union(p, c, FALSE)

SpecChunks == Init /\ [][ChunksNext]_vars

(***************************************************************************)
(* C30: after any sequence of builder calls the chunk list is sorted in    *)
(* non-decreasing order of position, and a new chunk of a position that    *)
(* has chunks already stands right after the last of them: the chunks of   *)
(* one position stand in the order they were created in, which is the      *)
(* order of their places in the fragment buffer.                           *)
(***************************************************************************)
C30_ChunksSorted ==
    \A q \in StmtIds :
        LET chunks == stmts[q].chunks
        IN  \A i, j \in 1..Len(chunks) :
               i < j => /\ chunks[i].pos <= chunks[j].pos
                        /\ chunks[i].pos = chunks[j].pos
                              => chunks[i].bufLow < chunks[j].bufLow

\* a statement that has embedded a child, two clauses of which are split
C30_Witness ==
    \E q \in StmtIds :
        /\ Live(q)
        /\ \E k \in 1..Len(calls[q]) : calls[q][k].child # 0
        /\ \E i, j \in 1..(Len(stmts[q].chunks) - 1) :
              /\ stmts[q].chunks[i].pos = stmts[q].chunks[i + 1].pos
              /\ stmts[q].chunks[j].pos = stmts[q].chunks[j + 1].pos
              /\ stmts[q].chunks[i].pos < stmts[q].chunks[j].pos

(***************************************************************************)
(* SpecSpans: a SELECT statement whose clauses are added in any order,     *)
(* LIMIT given more than once, and children embedded by SubQuery, With     *)
(* and Union.                                                              *)
(***************************************************************************)
MaxSpanCalls == 5

SpanCalls ==
    {Call("Where", f.expr, f.args) : f \in ChildWhereFrags}
    \cup {Call("Limit", <<>>, <<l>>) : l \in LimitVals}
    \cup {Call("Expr", f.expr, f.args) : f \in ExprFrags}

\* SubQuery and Union called on a statement that had fewer than n calls
SubQueryUpTo(p, c, prefix, suffix, n) ==
    /\ Live(p) /\ Live(c) /\ p # c
    /\ Len(calls[p]) < n
    /\ Depth(c) < MaxDepth
    /\ \E v \in {Stmt_SubQuery(View(p), prefix, suffix, ChildText(c), stmts[c].args)} :
          Embed(p, c, "SubQuery", v, prefix, suffix)

UnionUpTo(p, c, all, n) ==
    /\ Live(p) /\ Live(c) /\ p # c
    /\ Len(calls[p]) < n
    /\ Depth(c) < MaxDepth
    /\ \E v \in {Stmt_Union(View(p), all, ChildText(c), stmts[c].args)} :
          Embed(p, c, "Union", v, IF all THEN <<"UNION ALL ">> ELSE <<"UNION ">>, <<>>)

SpansNext ==
    \/ \E d \in PoolDialects, f \in FromFrags : Dialect_From(d, f)
    \/ \E q \in StmtIds, c \in SpanCalls : Alone(q) /\ CallUpTo(q, c, MaxSpanCalls)
    \/ \E p \in StmtIds, c \in StmtIds, prefix \in Prefixes, suffix \in Suffixes :
          SubQueryUpTo(p, c, prefix, suffix, MaxSpanCalls)
    \/ \E p \in StmtIds, c \in StmtIds, n \in QueryNames :
          WithUpTo(p, c, n, MaxSpanCalls)
    \/ \E p \in StmtIds, c \in StmtIds : UnionUpTo(p, c, FALSE, MaxSpanCalls)

SpecSpans == Init /\ [][SpansNext]_vars

\* the chunks of every statement lie within its fragment buffer, no two of
\* them overlapping
SpansInBuffer ==
    \A q \in StmtIds :
        Live(q) =>
            LET chunks == stmts[q].chunks
            IN  /\ \A i \in 1..Len(chunks) :
                      /\ 0 <= chunks[i].bufLow
                      /\ chunks[i].bufLow <= chunks[i].bufHigh
                      /\ chunks[i].bufHigh <= Len(bufs[stmts[q].buf])
                /\ \A i, j \in 1..Len(chunks) :
                      i # j => \/ chunks[i].bufHigh <= chunks[j].bufLow
                               \/ chunks[j].bufHigh <= chunks[i].bufLow

\* a call on q: what was in the fragment buffer stays, and a chunk grows at
\* its high end only, and only if that end was the end of the buffer
SpansGrowAtHead ==
    \A q \in StmtIds :
        (Live(q) /\ stmtState'[q] = "live" /\ stmts'[q].buf = stmts[q].buf) =>
            LET old == bufs[stmts[q].buf]
                new == bufs'[stmts[q].buf]
                chunks == stmts[q].chunks
                after == stmts'[q].chunks
                kept(i) == {j \in 1..Len(after) : /\ after[j].pos = chunks[i].pos
                                                  /\ after[j].bufLow = chunks[i].bufLow}
            IN  /\ Len(old) <= Len(new)
                /\ SubSeq(new, 1, Len(old)) = old
                /\ \A i \in 1..Len(chunks) :
                      /\ kept(i) # {}
                      /\ \A j \in kept(i) :
                            /\ after[j].bufHigh >= chunks[i].bufHigh
                            /\ after[j].bufHigh > chunks[i].bufHigh
                                  => chunks[i].bufHigh = Len(old)
                \* text appended with no chunk grown has a chunk of its own
                /\ (Len(new) > Len(old)
                     /\ \A i \in 1..Len(chunks) : \A j \in kept(i) :
                           after[j].bufHigh = chunks[i].bufHigh)
                      => Len(after) > Len(chunks)

(***************************************************************************)
(* C31: after any sequence of builder calls every chunk satisfies          *)
(* 0 <= bufLow <= bufHigh <= len(buffer) and the spans of distinct chunks  *)
(* do not overlap; what is in the fragment buffer is never rewritten or    *)
(* removed before Close; a chunk's bufHigh grows only in a call at whose   *)
(* start it equalled the buffer's write head, and in every other case a    *)
(* new chunk is created for the appended text (SubQuery and Union, which   *)
(* set bufHigh after addChunk returns, included).                          *)
(***************************************************************************)
C31_SpansDisjointAndGrowAtHead == [](SpansInBuffer) /\ [][SpansGrowAtHead]_vars

(***************************************************************************)
(* SpecReopen: a SELECT statement whose clause methods are called again    *)
(* and again, with and without an expression.                              *)
(***************************************************************************)
MaxReopenCalls == 5

Blank == [expr |-> <<>>, args |-> <<>>]

ReopenCalls ==
    {Call("Select", f.expr, f.args) : f \in {P("s"), Blank}}
    \cup {Call("From", f.expr, f.args) : f \in {P("f"), Blank}}
    \cup {Call("Where", f.expr, f.args) : f \in {P("w"), Blank}}
    \cup {Call("GroupBy", f.expr, <<>>) : f \in {N("g"), Blank}}
    \cup {Call("Limit", <<>>, <<l>>) : l \in LimitVals}
    \cup {Call("Offset", <<>>, <<o>>) : o \in OffsetVals}

ReopenNext ==
    \/ \E d \in Dialects, f \in SelectFrags : NoneLive /\ Dialect_Select(d, f)
    \/ \E q \in StmtIds, c \in ReopenCalls : CallUpTo(q, c, MaxReopenCalls)
    \/ \E q \in StmtIds : Stmt_String(q)

SpecReopen == Init /\ [][ReopenNext]_vars

\* the position a clause method passes to addChunk
ClausePos(m) ==
    CASE m = "Select" -> posSelect [] m = "From" -> posFrom [] m = "Where" -> posWhere
      [] m = "GroupBy" -> posGroupBy [] m = "Limit" -> posLimit
      [] m = "Offset" -> posOffset

HasChunkAt(chunks, pos) == \E i \in 1..Len(chunks) : chunks[i].pos = pos

IsPrefix(s, t) == Len(s) <= Len(t) /\ SubSeq(t, 1, Len(s)) = s

Separator(chunks, i) ==
    IF i > 1 /\ chunks[i].pos > chunks[i - 1].pos THEN <<" ">> ELSE <<>>

RECURSIVE Joined(_, _, _)
Joined(chunks, text, i) ==
    IF i = 0 THEN <<>>
    ELSE Joined(chunks, text, i - 1) \o Separator(chunks, i)
         \o SubSeq(text, chunks[i].bufLow + 1, chunks[i].bufHigh)

(***************************************************************************)
(* C33: String() writes the chunks in list order, with exactly one space   *)
(* before a chunk whose position is greater than the previous chunk's,     *)
(* nothing between consecutive chunks of equal position and nothing before *)
(* the first chunk; under NoDialect the text of the chunks is copied as it *)
(* is.  (Under PostgreSQL the spaces stand alike.)                         *)
(***************************************************************************)
C33_StringJoinsChunks ==
    last.op = "String"
    => LET q == last.q
           joined == Joined(stmts[q].chunks, bufs[stmts[q].buf], Len(stmts[q].chunks))
       IN  /\ stmts[q].dialect = NoDialect => last.text = joined
           /\ Count(last.text, " ") = Count(joined, " ")

\* a NoDialect statement of three chunks, the first two at one position
C33_Witness ==
    /\ last.op = "String"
    /\ stmts[last.q].dialect = NoDialect
    /\ Len(stmts[last.q].chunks) = 3
    /\ stmts[last.q].chunks[1].pos = stmts[last.q].chunks[2].pos
    /\ stmts[last.q].chunks[2].pos < stmts[last.q].chunks[3].pos
    /\ \A i \in 1..3 : stmts[last.q].chunks[i].bufLow < stmts[last.q].chunks[i].bufHigh
    /\ Len(last.text) = Len(bufs[stmts[last.q].buf]) + 1

(***************************************************************************)
(* C34: after any sequence of builder calls len(Args()) equals the sum of  *)
(* argLen over all chunks, so that the index len(args) - argTail at which  *)
(* addChunk inserts the arguments of a call, whatever its position, lies   *)
(* within [0, len(args)].                                                  *)
(***************************************************************************)
Positions == {posStart, posWith, posInsert, posInsertFields, posValues, posDelete,
              posUpdate, posSet, posSelect, posInto, posFrom, posWhere, posGroupBy,
              posHaving, posUnion, posOrderBy, posLimit, posOffset, posReturning,
              posEnd}

C34_ArgsMatchChunks ==
    \A q \in StmtIds :
        LET chunks == stmts[q].chunks
            args == stmts[q].args
        IN  /\ Len(args) = SumArgLen(chunks)
            /\ \A pos \in Positions \cup {chunks[i].pos : i \in 1..Len(chunks)} :
                  LET argTail == chunkScan(chunks, pos, Len(chunks) - 1, 0).argTail
                  IN  0 <= Len(args) - argTail /\ Len(args) - argTail <= Len(args)

\* the arguments of In were inserted in front of those of a later clause
C34_Witness ==
    \E q \in StmtIds :
        /\ Live(q)
        /\ last.op = "In" /\ last.q = q
        /\ stmts[q].args = <<"f", "w", "i1", "c">>
        /\ Len(stmts[q].chunks) = 3

(***************************************************************************)
(* C35: a fragment added by Clause never stands at the position of a       *)
(* built-in clause: after any number of Clause calls a built-in clause     *)
(* method called later still opens its own clause with its own keyword,    *)
(* and its expression is not appended to a Clause fragment.                *)
(***************************************************************************)
\* the chunks of q that Clause made: their text begins with the fragment
RawChunks(q) ==
    {i \in 1..Len(stmts[q].chunks) :
        /\ stmts[q].chunks[i].bufLow < stmts[q].chunks[i].bufHigh
        /\ bufs[stmts[q].buf][stmts[q].chunks[i].bufLow + 1] = "c"}

C35_ClauseOffBuiltins ==
    \A q \in StmtIds :
        Live(q) =>
            LET chunks == stmts[q].chunks
                text == bufs[stmts[q].buf]
            IN  /\ \A i \in RawChunks(q) : chunks[i].pos \notin Positions
                /\ \A m \in {"Where", "Limit"} :
                      CallsOf(calls[q], m) # <<>> => Count(text, Keyword(m)) = 1
                /\ \A i \in RawChunks(q) :
                      Count(Slice(text, chunks[i].bufLow, chunks[i].bufHigh), "w") = 0

(***************************************************************************)
(* C36: Clone preserves the current clause position: right after Clone,    *)
(* Expr (or SubQuery) called with the same arguments on the clone and on   *)
(* its original gives the same rendered text and the same arguments for    *)
(* both, whatever the Stmt object behind the clone was used for before.    *)
(***************************************************************************)
SameResult(va, vb, dialect) ==
    /\ Render(va.chunks, va.text, dialect) = Render(vb.chunks, vb.text, dialect)
    /\ va.args = vb.args

C36_ClonePreservesPos ==
    last.op = "Clone"
    => LET a == View(last.src)
           b == View(last.q)
           dialect == stmts[last.q].dialect
       IN  /\ \A f \in ExprFrags :
                 SameResult(Stmt_Expr(a, f.expr, f.args), Stmt_Expr(b, f.expr, f.args),
                            dialect)
           /\ \A prefix \in Prefixes, suffix \in Suffixes :
                 SameResult(Stmt_SubQuery(a, prefix, suffix, <<"FROM", " ", "u">>, <<>>),
                            Stmt_SubQuery(b, prefix, suffix, <<"FROM", " ", "u">>, <<>>),
                            dialect)

(***************************************************************************)
(* SpecOwn: statements created, built, rendered, cloned, embedded into     *)
(* one another and closed in any order.                                    *)
(***************************************************************************)
OwnNext ==
    \/ \E d \in Dialects, f \in FromFrags : Dialect_From(d, f)
    \/ \E q \in StmtIds, f \in ChildWhereFrags : Where(q, f)
    \/ \E q \in StmtIds : Stmt_String(q)
    \/ \E q \in StmtIds : Clone(q)
    \/ \E p \in StmtIds, c \in StmtIds, prefix \in Prefixes, suffix \in Suffixes :
          SubQuery(p, c, prefix, suffix)
    \/ \E p \in StmtIds, c \in StmtIds : Union(p, c, TRUE)
    \/ \E q \in StmtIds : Close(q)

SpecOwn == Init /\ [][OwnNext]_vars

\* the statements in use that hold the buffer b, as q.buf or as q.sql
Holders(b) == {q \in StmtIds : Live(q) /\ b \in Buffers(q)}

\* every buffer held is out of the pool and held by one statement, in one
\* place; a statement in the pool holds none
OwnedAlone ==
    /\ \A b \in BufIds : Cardinality(Holders(b)) <= 1
    /\ \A q \in StmtIds :
          IF Live(q)
          THEN /\ stmts[q].buf # stmts[q].sql
               /\ \A b \in Buffers(q) : bufState[b] = "owned"
          ELSE Buffers(q) = {}

\* a step made on other statements leaves the rendered text of q, and the
\* buffer it is kept in, as they are
TextKept ==
    \A q \in StmtIds :
        (Live(q) /\ stmts[q].sql # NoBuf /\ last'.q # q /\ last'.child # q)
        => /\ stmtState'[q] = "live"
           /\ stmts'[q].sql = stmts[q].sql
           /\ bufs'[stmts[q].sql] = bufs[stmts[q].sql]

(***************************************************************************)
(* C37: the rendered-text buffer of a statement is that statement's alone  *)
(* from the render until the statement is next changed, invalidated or     *)
(* closed: meanwhile nothing done on other statements (create, clone,      *)
(* render, embed, Close) alters the text String() returned; no buffer is   *)
(* held by two statements, and none is put into the buffer pool twice:     *)
(* each buffer put is held, and out of the pool, when it is put.           *)
(***************************************************************************)
C37_RenderedTextOwned == [](OwnedAlone) /\ [][TextKept]_vars

\* the object and the buffers of a closed statement are in use again, next
\* to a statement that keeps the text rendered before
C37_Witness ==
    /\ last.op \in {"From", "Clone"}
    /\ gets = 3
    /\ \E q \in StmtIds :
          /\ q # last.q /\ Live(q)
          /\ stmts[q].sql # NoBuf
          /\ bufs[stmts[q].sql] # <<>>
          /\ bufState[stmts[q].sql] = "owned"
          /\ q \notin Range(stmtPool)

(***************************************************************************)
(* C38: an insert that races with ClearCache is never written into the     *)
(* discarded map: the map a putCachedSQL(k, v) call has written to is,     *)
(* while the call still holds the lock, the cache of the dialect, so that  *)
(* v is found under k by every getCachedSQL call that starts afterwards,   *)
(* until ClearCache or another putCachedSQL for k is called.               *)
(***************************************************************************)
C38_PutSurvivesClear ==
    \A t \in Threads :
        (thr[t].op = "putCachedSQL" /\ thr[t].pc = "unlock")
        => /\ thr[t].c = cache[thr[t].d]
           /\ \E x \in maps[cache[thr[t].d]] :
                 /\ KeyBytes(x.key, bufs) = thr[t].arg
                 /\ x.val = thr[t].sql

====
